---- MODULE Spec2Model ----
(***************************************************************************)
(* A model of add-pin.py: the URL classifier, the three per-service        *)
(* extractors, the manual-entry fallback, the category inferencer, the     *)
(* composition of the pin record, its insertion, and the batch loop of     *)
(* main.                                                                   *)
(*                                                                         *)
(* Python strings are sequences of one-character strings, so that `in`,    *)
(* re.search, str.replace and float() are computed on the text itself.     *)
(* An optional value (None or a value) is a sequence of length 0 or 1.     *)
(* A float holding a coordinate is an integer number of 1/10000 degree; a  *)
(* float holding a length or an elevation is an integer number of tenths.  *)
(***************************************************************************)
EXTENDS Integers, Sequences, FiniteSets, TLC

None == << >>
Some(x) == << x >>
IsNone(o) == Len(o) = 0
Val(o) == o[1]

\* ------------------------------------------------------------------ text

Digits == {"0","1","2","3","4","5","6","7","8","9"}
Whitespace == {" ", "\t", "\n"}
Lowers == {"a","b","c","d","e","f","g","h","i","j","k","l","m",
           "n","o","p","q","r","s","t","u","v","w","x","y","z"}
Uppers == {"A","B","C","D","E","F","G","H","I","J","K","L","M",
           "N","O","P","Q","R","S","T","U","V","W","X","Y","Z"}

DigitVal(c) ==
    CASE c = "0" -> 0 [] c = "1" -> 1 [] c = "2" -> 2 [] c = "3" -> 3
      [] c = "4" -> 4 [] c = "5" -> 5 [] c = "6" -> 6 [] c = "7" -> 7
      [] c = "8" -> 8 [] c = "9" -> 9

LowerOf(c) ==
    CASE c = "A" -> "a" [] c = "B" -> "b" [] c = "C" -> "c" [] c = "D" -> "d"
      [] c = "E" -> "e" [] c = "F" -> "f" [] c = "G" -> "g" [] c = "H" -> "h"
      [] c = "I" -> "i" [] c = "J" -> "j" [] c = "K" -> "k" [] c = "L" -> "l"
      [] c = "M" -> "m" [] c = "N" -> "n" [] c = "O" -> "o" [] c = "P" -> "p"
      [] c = "Q" -> "q" [] c = "R" -> "r" [] c = "S" -> "s" [] c = "T" -> "t"
      [] c = "U" -> "u" [] c = "V" -> "v" [] c = "W" -> "w" [] c = "X" -> "x"
      [] c = "Y" -> "y" [] c = "Z" -> "z" [] OTHER -> c

UpperOf(c) ==
    CASE c = "a" -> "A" [] c = "b" -> "B" [] c = "c" -> "C" [] c = "d" -> "D"
      [] c = "e" -> "E" [] c = "f" -> "F" [] c = "g" -> "G" [] c = "h" -> "H"
      [] c = "i" -> "I" [] c = "j" -> "J" [] c = "k" -> "K" [] c = "l" -> "L"
      [] c = "m" -> "M" [] c = "n" -> "N" [] c = "o" -> "O" [] c = "p" -> "P"
      [] c = "q" -> "Q" [] c = "r" -> "R" [] c = "s" -> "S" [] c = "t" -> "T"
      [] c = "u" -> "U" [] c = "v" -> "V" [] c = "w" -> "W" [] c = "x" -> "X"
      [] c = "y" -> "Y" [] c = "z" -> "Z" [] OTHER -> c

\* str.lower()
Lower(s) == [k \in 1..Len(s) |-> LowerOf(s[k])]

\* str.title(): the first letter of every run of letters upper-cased, the rest
\* lower-cased.
Title(s) ==
    [k \in 1..Len(s) |->
        IF k = 1 \/ s[k-1] \notin (Lowers \cup Uppers)
        THEN UpperOf(s[k]) ELSE LowerOf(s[k])]

Min(S) == CHOOSE x \in S : \A y \in S : x <= y
Max(S) == CHOOSE x \in S : \A y \in S : x >= y

\* p occurs in s at position i
IsPrefixAt(s, p, i) ==
    /\ i >= 1
    /\ i + Len(p) - 1 <= Len(s)
    /\ \A k \in 1..Len(p) : s[i + k - 1] = p[k]

\* Python's `p in s`
Contains(s, p) == \E i \in 1..(Len(s) + 1) : IsPrefixAt(s, p, i)

\* the first position at or after `from` where p occurs in s, 0 when none
Find(s, p, from) ==
    LET hits == {i \in from..(Len(s) + 1) : IsPrefixAt(s, p, i)}
    IN IF hits = {} THEN 0 ELSE Min(hits)

\* str.strip()
Strip(s) ==
    LET keep == {k \in 1..Len(s) : s[k] \notin Whitespace}
    IN IF keep = {} THEN << >> ELSE SubSeq(s, Min(keep), Max(keep))

\* str.rstrip('/')
RStripSlash(s) ==
    LET keep == {k \in 1..Len(s) : s[k] # "/"}
    IN IF keep = {} THEN << >> ELSE SubSeq(s, 1, Max(keep))

\* s.split('/')[-1]
LastSegment(s) ==
    LET cuts == {k \in 1..Len(s) : s[k] = "/"}
    IN IF cuts = {} THEN s ELSE SubSeq(s, Max(cuts) + 1, Len(s))

\* str.replace(old, new) for a one-character old
RECURSIVE ReplaceChar(_, _, _)
ReplaceChar(s, old, new) ==
    IF s = << >> THEN << >>
    ELSE (IF Head(s) = old THEN new ELSE << Head(s) >>)
         \o ReplaceChar(Tail(s), old, new)

\* str.replace(old, new): every non-overlapping occurrence, left to right
RECURSIVE Replace(_, _, _)
Replace(s, old, new) ==
    LET i == Find(s, old, 1)
    IN IF i = 0 THEN s
       ELSE SubSeq(s, 1, i - 1) \o new
            \o Replace(SubSeq(s, i + Len(old), Len(s)), old, new)

\* " • ".join(parts)
RECURSIVE Join(_, _)
Join(sep, parts) ==
    IF parts = << >> THEN << >>
    ELSE IF Len(parts) = 1 THEN parts[1]
    ELSE parts[1] \o sep \o Join(sep, Tail(parts))

\* ---------------------------------------------------------------- re

(***************************************************************************)
(* A regular expression is a sequence of elements: a literal, one          *)
(* character of a class, an optional character, a greedy + or * run of a   *)
(* class, or a group boundary.  Every run in the patterns of add-pin.py is *)
(* followed by a character outside its class (or ends the pattern), so the *)
(* greedy match without backtracking is re's match.                        *)
(***************************************************************************)
Lit(v) == [t |-> "lit", v |-> v, neg |-> FALSE]
One(c) == [t |-> "one", v |-> c, neg |-> FALSE]
Opt(c) == [t |-> "opt", v |-> c, neg |-> FALSE]
Plus(c) == [t |-> "plus", v |-> c, neg |-> FALSE]
PlusNot(c) == [t |-> "plus", v |-> c, neg |-> TRUE]
Star(c) == [t |-> "star", v |-> c, neg |-> FALSE]
Mark == [t |-> "mark", v |-> {}, neg |-> FALSE]

InClass(e, c) == IF e.neg THEN c \notin e.v ELSE c \in e.v

\* the end (exclusive) of the longest run of class characters from i
RunEnd(s, i, e) ==
    LET stops == {j \in i..Len(s) : ~InClass(e, s[j])}
    IN IF stops = {} THEN Len(s) + 1 ELSE Min(stops)

NoMatch == [ok |-> FALSE, end |-> 0, g |-> << >>]

RECURSIVE MatchFrom(_, _, _, _, _)
MatchFrom(s, i, pat, k, g) ==
    IF k > Len(pat) THEN [ok |-> TRUE, end |-> i, g |-> g]
    ELSE LET e == pat[k] IN
      CASE e.t = "lit" ->
             IF IsPrefixAt(s, e.v, i)
             THEN MatchFrom(s, i + Len(e.v), pat, k + 1, g) ELSE NoMatch
        [] e.t = "one" ->
             IF i <= Len(s) /\ InClass(e, s[i])
             THEN MatchFrom(s, i + 1, pat, k + 1, g) ELSE NoMatch
        [] e.t = "opt" ->
             IF i <= Len(s) /\ InClass(e, s[i])
             THEN MatchFrom(s, i + 1, pat, k + 1, g)
             ELSE MatchFrom(s, i, pat, k + 1, g)
        [] e.t = "plus" ->
             IF RunEnd(s, i, e) > i
             THEN MatchFrom(s, RunEnd(s, i, e), pat, k + 1, g) ELSE NoMatch
        [] e.t = "star" -> MatchFrom(s, RunEnd(s, i, e), pat, k + 1, g)
        [] e.t = "mark" -> MatchFrom(s, i, pat, k + 1, Append(g, i))

\* re.match(pat, s)
ReMatch(pat, s) == MatchFrom(s, 1, pat, 1, << >>)

\* re.search(pat, s): the leftmost match
ReSearch(pat, s) ==
    LET hits == {i \in 1..(Len(s) + 1) : MatchFrom(s, i, pat, 1, << >>).ok}
    IN IF hits = {} THEN NoMatch ELSE MatchFrom(s, Min(hits), pat, 1, << >>)

\* match.group(n)
Group(s, m, n) == SubSeq(s, m.g[2 * n - 1], m.g[2 * n] - 1)

\* (-?\d+\.\d+)
DecimalGroup == << Mark, Opt({"-"}), Plus(Digits), Lit(<<".">>), Plus(Digits), Mark >>
\* ([0-9.-]+)
CoordClassGroup == << Mark, Plus(Digits \cup {".", "-"}), Mark >>
\* ([0-9.]+)
NumClassGroup == << Mark, Plus(Digits \cup {"."}), Mark >>

\* -------------------------------------------------------------- float

RECURSIVE DigitsValue(_)
DigitsValue(ds) ==
    IF ds = << >> THEN 0
    ELSE DigitsValue(SubSeq(ds, 1, Len(ds) - 1)) * 10 + DigitVal(ds[Len(ds)])

RECURSIVE Pow10(_)
Pow10(n) == IF n = 0 THEN 1 ELSE 10 * Pow10(n - 1)

ValueError == [ok |-> FALSE, v |-> 0]

(***************************************************************************)
(* float(text) for a text of digits, '.' and '-': a ValueError unless the  *)
(* text is an optional sign, digits with at most one '.', and at least one *)
(* digit.  The value is scaled by 10^places.                               *)
(***************************************************************************)
Float(text, places) ==
    LET neg == Len(text) >= 1 /\ text[1] = "-"
        body == IF neg THEN Tail(text) ELSE text
        dots == {k \in 1..Len(body) : body[k] = "."}
        ip == IF dots = {} THEN body ELSE SubSeq(body, 1, Min(dots) - 1)
        fp == IF dots = {} THEN << >> ELSE SubSeq(body, Min(dots) + 1, Len(body))
        wellFormed ==
            /\ Cardinality(dots) <= 1
            /\ \A k \in 1..Len(body) : body[k] \in Digits \cup {"."}
            /\ Len(ip) + Len(fp) >= 1
        kept == SubSeq(fp, 1, IF Len(fp) < places THEN Len(fp) ELSE places)
        mag == DigitsValue(ip) * Pow10(places)
               + DigitsValue(kept) * Pow10(places - Len(kept))
    IN IF wellFormed THEN [ok |-> TRUE, v |-> IF neg THEN 0 - mag ELSE mag]
       ELSE ValueError

\* ------------------------------------------------- detect_maps_service

\* the service returned for a URL that matches nothing (Python's None)
Unknown == "none"

\* the classifier with the apple test made before the google tests
detect_maps_service_apple_first(url) ==
    IF Contains(url, <<"m","a","p","s",".","a","p","p","l","e",".","c","o","m">>) THEN "apple"
    ELSE IF \/ Contains(url, <<"m","a","p","s",".","g","o","o","g","l","e",".","c","o","m">>)
            \/ Contains(url, <<"m","a","p","s",".","a","p","p",".","g","o","o",".","g","l">>)
            \/ Contains(url, <<"g","o","o",".","g","l","/","m","a","p","s">>)
    THEN "google"
    ELSE IF Contains(url, <<"a","l","l","t","r","a","i","l","s",".","c","o","m">>) THEN "alltrails"
    ELSE Unknown

\* lines 133-142
detect_maps_service(url) ==
    IF \/ Contains(url, <<"m","a","p","s",".","g","o","o","g","l","e",".","c","o","m">>)
       \/ Contains(url, <<"m","a","p","s",".","a","p","p",".","g","o","o",".","g","l">>)
       \/ Contains(url, <<"g","o","o",".","g","l","/","m","a","p","s">>)
    THEN "google"
    ELSE IF Contains(url, <<"m","a","p","s",".","a","p","p","l","e",".","c","o","m">>) THEN "apple"
    ELSE IF Contains(url, <<"a","l","l","t","r","a","i","l","s",".","c","o","m">>) THEN "alltrails"
    ELSE Unknown

\* ------------------------------------------------------- python values

\* Python's truth value of an optional string (None and '' are false)
Truthy(o) == ~IsNone(o) /\ Val(o) # << >>

\* Python's `a or b` on optional strings
OrElse(a, b) == IF Truthy(a) THEN a ELSE b

\* a list built from the latitude alone
CoordinatesLatOnly(latText, lngText) ==
    LET lat == Float(latText, 4)
    IN IF lat.ok THEN Some(<< lat.v >>) ELSE None

\* [lat, lng] at lines 161-163, 215-217, 317-319, 424-426, 441-443: both
\* floats are taken before the list is built, a ValueError leaves none
Coordinates(latText, lngText) ==
    LET lat == Float(latText, 4)
        lng == Float(lngText, 4)
    IN IF lat.ok /\ lng.ok THEN Some(<< lat.v, lng.v >>) ELSE None

\* whether float() raises on either text
RaisesValueError(latText, lngText) ==
    ~Float(latText, 4).ok \/ ~Float(lngText, 4).ok

\* the record every extractor returns; a key the extractor does not set is None
Candidate(coordinates, name, description, url, category, distance, elevation_gain) ==
    [coordinates |-> coordinates, name |-> name, description |-> description,
     url |-> url, category |-> category, distance |-> distance,
     elevation_gain |-> elevation_gain]

\* a response of urllib.request.urlopen: the URL after redirects, the body,
\* and the start tags HTMLParser.feed reports for the body
Response(final_url, html, tags) ==
    [ok |-> TRUE, final_url |-> final_url, html |-> html, tags |-> tags]

\* urlopen raising (URLError, HTTPError, a timeout)
FetchFailed == [ok |-> FALSE, final_url |-> << >>, html |-> << >>, tags |-> << >>]

MetaTag(property, content) ==
    [tag |-> "meta", property |-> Some(property), content |-> content]

\* ----------------------------------------------------------- MapsParser

IsOgTitle(t) == t.tag = "meta" /\ t.property = Some(<<"o","g",":","t","i","t","l","e">>)
IsOgDescription(t) == t.tag = "meta" /\ t.property = Some(<<"o","g",":","d","e","s","c","r","i","p","t","i","o","n">>)

\* attrs_dict.get('content', '').strip()
ContentOf(t) == Strip(IF IsNone(t.content) THEN << >> ELSE Val(t.content))

\* MapsParser.feed: handle_starttag on every start tag, a later tag overwriting
\* what an earlier one set
MapsParserFeed(tags) ==
    LET ts == {k \in 1..Len(tags) : IsOgTitle(tags[k])}
        ds == {k \in 1..Len(tags) : IsOgDescription(tags[k])}
    IN [title |-> IF ts = {} THEN None ELSE Some(ContentOf(tags[Max(ts)])),
        description |-> IF ds = {} THEN None ELSE Some(ContentOf(tags[Max(ds)]))]

\* ------------------------------------------------ fetch_google_maps_data

\* !3d(-?\d+\.\d+)!4d(-?\d+\.\d+)
PlacePattern == << Lit(<<"!","3","d">>) >> \o DecimalGroup \o << Lit(<<"!","4","d">>) >> \o DecimalGroup
\* @(-?\d+\.\d+),(-?\d+\.\d+)
ViewportPattern == << Lit(<<"@">>) >> \o DecimalGroup \o << Lit(<<",">>) >> \o DecimalGroup
\* [?&]q=(-?\d+\.\d+),(-?\d+\.\d+)
QueryPattern ==
    << One({"?", "&"}), Lit(<<"q","=">>) >> \o DecimalGroup \o << Lit(<<",">>) >> \o DecimalGroup
\* "center":\{"lat":(-?\d+\.\d+),"lng":(-?\d+\.\d+)}
CenterPattern ==
    << Lit(<<"\"","c","e","n","t","e","r","\"",":","{","\"","l","a","t","\"",":">>) >> \o DecimalGroup
    \o << Lit(<<",","\"","l","n","g","\"",":">>) >> \o DecimalGroup \o << Lit(<<"}">>) >>

\* [float(m.group(1)), float(m.group(2))]
PairOf(s, m) == Coordinates(Group(s, m, 1), Group(s, m, 2))

\* the precedence with the viewport centre tried before the place marker
GoogleCoordinatesSwapped(final_url, html) ==
    LET place == ReSearch(PlacePattern, final_url)
        viewport == ReSearch(ViewportPattern, final_url)
        query == ReSearch(QueryPattern, final_url)
        center == ReSearch(CenterPattern, html)
    IN IF viewport.ok THEN PairOf(final_url, viewport)
       ELSE IF place.ok THEN PairOf(final_url, place)
       ELSE IF query.ok THEN PairOf(final_url, query)
       ELSE IF center.ok THEN PairOf(html, center)
       ELSE None

\* lines 418-443: the coordinates of a fetched page
GoogleCoordinates(final_url, html) ==
    LET place == ReSearch(PlacePattern, final_url)
        viewport == ReSearch(ViewportPattern, final_url)
        query == ReSearch(QueryPattern, final_url)
        center == ReSearch(CenterPattern, html)
    IN IF place.ok THEN PairOf(final_url, place)
       ELSE IF viewport.ok THEN PairOf(final_url, viewport)
       ELSE IF query.ok THEN PairOf(final_url, query)
       ELSE IF center.ok THEN PairOf(html, center)
       ELSE None

\* fetch_google_maps_data: None when the fetch raises, a candidate otherwise
fetch_google_maps_data(u, r) ==
    IF ~r.ok THEN None
    ELSE LET parser == MapsParserFeed(r.tags) IN
         Some(Candidate(GoogleCoordinates(r.final_url, r.html),
                        parser.title, parser.description,
                        IF Contains(r.final_url, <<":","/","/">>) THEN r.final_url ELSE u,
                        None, None, None))

\* ------------------------------------------------- fetch_apple_maps_data

\* urllib.parse.urlparse(url).query: between the first '?' and the '#'
UrlQuery(u) ==
    LET hash == Find(u, <<"#">>, 1)
        nofrag == IF hash = 0 THEN u ELSE SubSeq(u, 1, hash - 1)
        q == Find(nofrag, <<"?">>, 1)
    IN IF q = 0 THEN << >> ELSE SubSeq(nofrag, q + 1, Len(nofrag))

\* s.split(ch)
RECURSIVE Split(_, _)
Split(s, ch) ==
    LET i == Find(s, << ch >>, 1)
    IN IF i = 0 THEN << s >>
       ELSE << SubSeq(s, 1, i - 1) >> \o Split(SubSeq(s, i + 1, Len(s)), ch)

\* the character of a %XX escape, for the escapes the modelled URLs use
PercentChar(h) ==
    CASE h = <<"2","0">> -> " " [] h = <<"2","B">> -> "+" [] h = <<"2","C">> -> ","
      [] h = <<"2","5">> -> "%" [] h = <<"2","F">> -> "/"

PercentCodes == {<<"2","0">>, <<"2","B">>, <<"2","C">>, <<"2","5">>, <<"2","F">>}

\* urllib.parse.unquote
RECURSIVE Unquote(_)
Unquote(s) ==
    IF s = << >> THEN << >>
    ELSE IF Head(s) = "%" /\ Len(s) >= 3 /\ SubSeq(s, 2, 3) \in PercentCodes
    THEN << PercentChar(SubSeq(s, 2, 3)) >> \o Unquote(SubSeq(s, 4, Len(s)))
    ELSE << Head(s) >> \o Unquote(Tail(s))

\* urllib.parse.unquote_plus
UnquotePlus(s) == Unquote(ReplaceChar(s, "+", <<" ">>))

\* urllib.parse.parse_qs(query)[key][0], None when key is not in the result:
\* the first name=value pair of that name whose value is not blank, name and
\* value decoded
ParseQsFirst(query, key) ==
    LET pieces == Split(query, "&")
        NameOf(p) == LET e == Find(p, <<"=">>, 1)
                     IN UnquotePlus(IF e = 0 THEN p ELSE SubSeq(p, 1, e - 1))
        ValueOf(p) == LET e == Find(p, <<"=">>, 1)
                      IN IF e = 0 THEN << >>
                         ELSE UnquotePlus(SubSeq(p, e + 1, Len(p)))
        hits == {k \in 1..Len(pieces) :
                    NameOf(pieces[k]) = key /\ ValueOf(pieces[k]) # << >>}
    IN IF hits = {} THEN None ELSE Some(ValueOf(pieces[Min(hits)]))

\* (-?\d+\.\d+),(-?\d+\.\d+)
LlPattern == DecimalGroup \o << Lit(<<",">>) >> \o DecimalGroup
\* "latitude":(-?\d+\.\d+),"longitude":(-?\d+\.\d+)
AppleHtmlPattern ==
    << Lit(<<"\"","l","a","t","i","t","u","d","e","\"",":">>) >> \o DecimalGroup
    \o << Lit(<<",","\"","l","o","n","g","i","t","u","d","e","\"",":">>) >> \o DecimalGroup

\* lines 156-163
AppleLlCoordinates(u) ==
    LET ll == ParseQsFirst(UrlQuery(u), <<"l","l">>)
        m == IF IsNone(ll) THEN NoMatch ELSE ReMatch(LlPattern, Val(ll))
    IN IF m.ok THEN PairOf(Val(ll), m) ELSE None

\* lines 165-176
AppleName(u) ==
    LET q == ParseQsFirst(UrlQuery(u), <<"q">>)
        address == ParseQsFirst(UrlQuery(u), <<"a","d","d","r","e","s","s">>)
        name == IF IsNone(q) THEN None ELSE Some(UnquotePlus(Val(q)))
    IN IF ~IsNone(address) /\ ~Truthy(name)
       THEN Some(UnquotePlus(Val(address))) ELSE name

AppleDescription(u) ==
    LET q == ParseQsFirst(UrlQuery(u), <<"q">>)
        address == ParseQsFirst(UrlQuery(u), <<"a","d","d","r","e","s","s">>)
        description == IF IsNone(q) THEN None ELSE Some(UnquotePlus(Val(q)))
    IN IF ~IsNone(address) /\ ~Truthy(description)
       THEN Some(UnquotePlus(Val(address))) ELSE description

\* a fetch of the page whatever the 'll' parameter gave
AppleFetchesAlways(u) == TRUE

\* whether fetch_apple_maps_data fetches the page (line 179)
AppleFetches(u) == IsNone(AppleLlCoordinates(u))

\* lines 178-195: r is the response of the fetch, read only when it is made
AppleCoordinates(u, r) ==
    IF ~AppleFetches(u) THEN AppleLlCoordinates(u)
    ELSE IF ~r.ok THEN None
    ELSE LET m == ReSearch(AppleHtmlPattern, r.html)
         IN IF m.ok THEN PairOf(r.html, m) ELSE None

fetch_apple_maps_data(u, r) ==
    Some(Candidate(AppleCoordinates(u, r), AppleName(u), AppleDescription(u), u,
                   None, None, None))

\* ------------------------------------------------- fetch_alltrails_data

\* lines 249-253: the URL that is fetched
WidgetUrl(u) ==
    LET widget_url == Replace(u, <<"a","l","l","t","r","a","i","l","s",".","c","o","m","/","t","r","a","i","l","/">>, <<"a","l","l","t","r","a","i","l","s",".","c","o","m","/","w","i","d","g","e","t","/","t","r","a","i","l","/">>)
    IN IF ~Contains(widget_url, <<"w","i","d","g","e","t">>) THEN u ELSE widget_url

\* <meta property="og:title" content="([^"]+)"
OgTitlePattern ==
    << Lit(<<"<","m","e","t","a"," ","p","r","o","p","e","r","t","y","=","\"","o","g",":","t","i","t","l","e","\""," ","c","o","n","t","e","n","t","=","\"">>), Mark, PlusNot({"\""}), Mark,
       Lit(<<"\"">>) >>
\* <title>([^<]+)</title>
TitlePattern == << Lit(<<"<","t","i","t","l","e",">">>), Mark, PlusNot({"<"}), Mark, Lit(<<"<","/","t","i","t","l","e",">">>) >>
\* data-name="([^"]+)"
DataNamePattern == << Lit(<<"d","a","t","a","-","n","a","m","e","=","\"">>), Mark, PlusNot({"\""}), Mark, Lit(<<"\"">>) >>
\* \s*[-|]  (the head of \s*[-|].*$ ; the rest of the text follows it)
SuffixPattern == << Star(Whitespace), One({"-", "|"}) >>

FirstGroup(pat, s) ==
    LET m == ReSearch(pat, s) IN IF m.ok THEN Some(Group(s, m, 1)) ELSE None

\* re.sub(r'\s*[-|].*$', '', name).strip() on a text of one line
TrimSuffix(name) ==
    LET hits == {i \in 1..Len(name) : MatchFrom(name, i, SuffixPattern, 1, << >>).ok}
    IN Strip(IF hits = {} THEN name ELSE SubSeq(name, 1, Min(hits) - 1))

SiteName == <<"A","l","l","T","r","a","i","l","s">>

\* the name chain without the tests against the site's own name
AlltrailsNameKeepsSite(u, html) ==
    LET meta_title == FirstGroup(OgTitlePattern, html)
        n1 == IF IsNone(meta_title) THEN None ELSE Some(TrimSuffix(Val(meta_title)))
        title_match == FirstGroup(TitlePattern, html)
        n2 == IF ~Truthy(n1) /\ ~IsNone(title_match)
              THEN Some(TrimSuffix(Val(title_match))) ELSE n1
        name_match == FirstGroup(DataNamePattern, html)
        n3 == IF ~Truthy(n2) /\ ~IsNone(name_match) THEN name_match ELSE n2
    IN IF ~Truthy(n3)
       THEN Some(Title(ReplaceChar(LastSegment(RStripSlash(u)), "-", <<" ">>)))
       ELSE n3

\* lines 280-304
AlltrailsName(u, html) ==
    LET meta_title == FirstGroup(OgTitlePattern, html)
        n1 == IF IsNone(meta_title) THEN None ELSE Some(TrimSuffix(Val(meta_title)))
        title_match == FirstGroup(TitlePattern, html)
        n2 == IF ~Truthy(n1) /\ ~IsNone(title_match)
              THEN Some(TrimSuffix(Val(title_match))) ELSE n1
        name_match == FirstGroup(DataNamePattern, html)
        n3 == IF (~Truthy(n2) \/ n2 = Some(SiteName)) /\ ~IsNone(name_match)
              THEN name_match ELSE n2
    IN IF ~Truthy(n3) \/ n3 = Some(SiteName)
       THEN Some(Title(ReplaceChar(LastSegment(RStripSlash(u)), "-", <<" ">>)))
       ELSE n3

\* "lat":([0-9.-]+),"lng":([0-9.-]+)
CompactPattern ==
    << Lit(<<"\"","l","a","t","\"",":">>) >> \o CoordClassGroup \o << Lit(<<",","\"","l","n","g","\"",":">>) >> \o CoordClassGroup
\* "latitude":([0-9.-]+),"longitude":([0-9.-]+)
VerbosePattern ==
    << Lit(<<"\"","l","a","t","i","t","u","d","e","\"",":">>) >> \o CoordClassGroup
    \o << Lit(<<",","\"","l","o","n","g","i","t","u","d","e","\"",":">>) >> \o CoordClassGroup
\* data-lat="([0-9.-]+)"\s+data-lng="([0-9.-]+)"
DataAttrPattern ==
    << Lit(<<"d","a","t","a","-","l","a","t","=","\"">>) >> \o CoordClassGroup
    \o << Lit(<<"\"">>), Plus(Whitespace), Lit(<<"d","a","t","a","-","l","n","g","=","\"">>) >>
    \o CoordClassGroup \o << Lit(<<"\"">>) >>
\* center:\s*\[([0-9.-]+),\s*([0-9.-]+)\]
CenterArrayPattern ==
    << Lit(<<"c","e","n","t","e","r",":">>), Star(Whitespace), Lit(<<"[">>) >> \o CoordClassGroup
    \o << Lit(<<",">>), Star(Whitespace) >> \o CoordClassGroup \o << Lit(<<"]">>) >>

coords_patterns == << CompactPattern, VerbosePattern, DataAttrPattern, CenterArrayPattern >>

\* the first pattern of a list that matches the text, 0 when none does
FirstMatching(patterns, s) ==
    LET hits == {k \in 1..Len(patterns) : ReSearch(patterns[k], s).ok}
    IN IF hits = {} THEN 0 ELSE Min(hits)

\* <script type="application/ld\+json">([^<]+)</script>
JsonLdPattern ==
    << Lit(<<"<","s","c","r","i","p","t"," ","t","y","p","e","=","\"","a","p","p","l","i","c","a","t","i","o","n","/","l","d","+","j","s","o","n","\"",">">>), Mark, PlusNot({"<"}), Mark,
       Lit(<<"<","/","s","c","r","i","p","t",">">>) >>

\* the JSON-LD payloads of the modelled pages
LdTrail == <<"{","\"","@","t","y","p","e","\"",":","\"","P","l","a","c","e","\"",",","\"","g","e","o","\"",":","{","\"","l","a","t","i","t","u","d","e","\"",":","6","1",".","1","7","9","6",",","\"","l","o","n","g","i","t","u","d","e","\"",":","-","1","4","9",".","8","3","5","3","}","}">>
LdList == <<"[","{","\"","g","e","o","\"",":","{","\"","l","a","t","i","t","u","d","e","\"",":","\"","6","0",".","9","\"",",","\"","l","o","n","g","i","t","u","d","e","\"",":","\"","-","1","4","9",".","1","\"","}","}","]">>
LdHalf == <<"{","\"","g","e","o","\"",":","{","\"","l","a","t","i","t","u","d","e","\"",":","6","1",".","1","7","9","6","}","}">>
LdNoGeo == <<"{","\"","@","t","y","p","e","\"",":","\"","P","l","a","c","e","\"",",","\"","n","a","m","e","\"",":","\"","F","l","a","t","t","o","p","\"","}">>
LdBroken == <<"{","\"","g","e","o","\"",":","{","\"","l","a","t","i","t","u","d","e","\"",":","6","1",".","1","7","9","6",",">>

\* what lines 326-337 read of json.loads(text): whether it parses, whether
\* data (after data[0] of a list) is an object whose 'geo' is an object, and
\* that object's latitude and longitude (None: no such key; 0: a falsy value)
JsonValue(valid, geo, latitude, longitude) ==
    [valid |-> valid, geo |-> geo, latitude |-> latitude, longitude |-> longitude]

JsonLoads(text) ==
    CASE text = LdTrail -> JsonValue(TRUE, TRUE, Some(611796), Some(-1498353))
      [] text = LdList -> JsonValue(TRUE, TRUE, Some(609000), Some(-1491000))
      [] text = LdHalf -> JsonValue(TRUE, TRUE, Some(611796), None)
      [] text = LdNoGeo -> JsonValue(TRUE, FALSE, None, None)
      [] OTHER -> JsonValue(FALSE, FALSE, None, None)

\* lines 323-339
JsonLdCoordinates(html) ==
    LET jsonld_match == FirstGroup(JsonLdPattern, html)
        data == IF IsNone(jsonld_match) THEN JsonValue(FALSE, FALSE, None, None)
                ELSE JsonLoads(Val(jsonld_match))
        lat == data.latitude
        lng == data.longitude
    IN IF /\ data.valid /\ data.geo
          /\ ~IsNone(lat) /\ Val(lat) # 0 /\ ~IsNone(lng) /\ Val(lng) # 0
       THEN Some(<< Val(lat), Val(lng) >>)
       ELSE None

\* lines 306-339
AlltrailsCoordinates(html) ==
    LET k == FirstMatching(coords_patterns, html)
        m == ReSearch(coords_patterns[k], html)
    IN IF k # 0 THEN PairOf(html, m) ELSE JsonLdCoordinates(html)

\* float() at lines 317-318 raising
AlltrailsCoordinatesRaise(html) ==
    LET k == FirstMatching(coords_patterns, html)
        m == ReSearch(coords_patterns[k], html)
    IN k # 0 /\ RaisesValueError(Group(html, m, 1), Group(html, m, 2))

\* "length":([0-9.]+)   data-length="([0-9.]+)"
distance_patterns ==
    << << Lit(<<"\"","l","e","n","g","t","h","\"",":">>) >> \o NumClassGroup,
       << Lit(<<"d","a","t","a","-","l","e","n","g","t","h","=","\"">>) >> \o NumClassGroup \o << Lit(<<"\"">>) >> >>
\* "elevationGain":([0-9.]+)   data-elevation="([0-9.]+)"
elevation_patterns ==
    << << Lit(<<"\"","e","l","e","v","a","t","i","o","n","G","a","i","n","\"",":">>) >> \o NumClassGroup,
       << Lit(<<"d","a","t","a","-","e","l","e","v","a","t","i","o","n","=","\"">>) >> \o NumClassGroup \o << Lit(<<"\"">>) >> >>

\* the text captured by the first matching pattern, None when none matches
FirstCapture(patterns, s) ==
    LET k == FirstMatching(patterns, s)
    IN IF k = 0 THEN None ELSE FirstGroup(patterns[k], s)

(***************************************************************************)
(* round(meters * 0.000621371, 1), in tenths of a mile, for a length given *)
(* in tenths of a meter: round(t * 621371 / 10^9).  The product is split   *)
(* as t * 62 * 10^4 + t * 1371 to stay within TLC's integers; no length    *)
(* below 50,000 km lies on a rounding tie.                                 *)
(***************************************************************************)
MilesTenths(t) == (t * 62 + (t * 1371) \div 10000 + 50000) \div 100000

(***************************************************************************)
(* int(meters * 3.28084), in feet, for an elevation given in tenths of a   *)
(* meter: floor(t * 328084 / 10^6), the product split as                   *)
(* t * 328 * 1000 + t * 84.                                                *)
(***************************************************************************)
FeetOf(t) == (t * 328 + (t * 84) \div 1000) \div 1000

\* a distance below 100 kept as miles, any other converted from meters
AlltrailsDistanceThreshold(html) ==
    LET text == FirstCapture(distance_patterns, html)
        v == Float(Val(text), 1).v
    IN IF IsNone(text) THEN None
       ELSE Some(IF v < 1000 THEN v ELSE MilesTenths(v))

\* lines 348-356: the numeric field, None when no pattern matches
AlltrailsDistance(html) ==
    LET text == FirstCapture(distance_patterns, html)
    IN IF IsNone(text) THEN None ELSE Some(MilesTenths(Float(Val(text), 1).v))

\* an elevation below 10,000 kept as feet, any other converted from meters
AlltrailsElevationThreshold(html) ==
    LET text == FirstCapture(elevation_patterns, html)
        v == Float(Val(text), 1).v
    IN IF IsNone(text) THEN None
       ELSE Some(IF v < 100000 THEN v \div 10 ELSE FeetOf(v))

\* lines 365-373
AlltrailsElevation(html) ==
    LET text == FirstCapture(elevation_patterns, html)
    IN IF IsNone(text) THEN None ELSE Some(FeetOf(Float(Val(text), 1).v))

\* float() at line 352 or 369 raising
AlltrailsMetricsRaise(html) ==
    LET d == FirstCapture(distance_patterns, html)
        e == FirstCapture(elevation_patterns, html)
    IN \/ ~IsNone(d) /\ ~Float(Val(d), 1).ok
       \/ ~IsNone(e) /\ ~Float(Val(e), 1).ok

DigitChar(d) ==
    CASE d = 0 -> "0" [] d = 1 -> "1" [] d = 2 -> "2" [] d = 3 -> "3"
      [] d = 4 -> "4" [] d = 5 -> "5" [] d = 6 -> "6" [] d = 7 -> "7"
      [] d = 8 -> "8" [] d = 9 -> "9"

\* str(n) for an int n >= 0
RECURSIVE IntStr(_)
IntStr(n) == IF n < 10 THEN << DigitChar(n) >>
             ELSE IntStr(n \div 10) \o << DigitChar(n % 10) >>

\* str(x) for a float x >= 0 of one decimal place, given in tenths
TenthsStr(n) == IntStr(n \div 10) \o <<".">> \o << DigitChar(n % 10) >>

\* f"{distance_value} mi"
DistanceText(miles) == TenthsStr(miles) \o <<" ","m","i">>
\* f"{elevation_gain_value} ft"
ElevationText(feet) == IntStr(feet) \o <<" ","f","t">>

\* the separator of the description, " • "
Separator == << " ", "BULLET", " " >>

\* lines 375-382
AlltrailsDescription(distance, elevation_gain) ==
    LET parts == (IF IsNone(distance) THEN << >> ELSE << Val(distance) >>)
                 \o (IF IsNone(elevation_gain) THEN << >>
                     ELSE << <<"+">> \o Val(elevation_gain) \o <<" ","e","l","e","v","a","t","i","o","n">> >>)
    IN IF parts = << >> THEN <<"H","i","k","i","n","g"," ","t","r","a","i","l">> ELSE Join(Separator, parts)

TrailCategory == <<"H","i","k","e">>

\* fetch_alltrails_data on a fetched page (lines 275-398)
AlltrailsCandidate(u, html) ==
    LET distance_value == AlltrailsDistance(html)
        elevation_gain_value == AlltrailsElevation(html)
        distance == IF IsNone(distance_value) THEN None
                    ELSE Some(DistanceText(Val(distance_value)))
        elevation_gain == IF IsNone(elevation_gain_value) THEN None
                          ELSE Some(ElevationText(Val(elevation_gain_value)))
    IN Candidate(AlltrailsCoordinates(html), AlltrailsName(u, html),
                 Some(AlltrailsDescription(distance, elevation_gain)), u,
                 Some(TrailCategory), distance_value, elevation_gain_value)

\* ------------------------------------------------ fetch_alltrails_manual

\* lines 214-220: whether float() accepts both answers
ManualCoordinatesValid(lat_str, lng_str) == ~RaisesValueError(lat_str, lng_str)

\* the manual entry with the two answers exchanged
fetch_alltrails_manual_exchanged(u, name, lat_str, lng_str, distance, elevation) ==
    Candidate(Coordinates(lng_str, lat_str), Some(name), Some(<<"H","i","k","i","n","g"," ","t","r","a","i","l">>), u,
              Some(TrailCategory), None, None)

\* lines 205-240, for answers the loop accepts
fetch_alltrails_manual(u, name, lat_str, lng_str, distance, elevation) ==
    LET parts == (IF distance # << >> THEN << distance \o <<" ","m","i">> >> ELSE << >>)
                 \o (IF elevation # << >>
                     THEN << <<"+">> \o elevation \o <<" ","f","t"," ","e","l","e","v","a","t","i","o","n">> >> ELSE << >>)
        description == IF parts = << >> THEN <<"H","i","k","i","n","g"," ","t","r","a","i","l">>
                       ELSE Join(Separator, parts)
    IN Candidate(Coordinates(lat_str, lng_str), Some(name), Some(description), u,
                 Some(TrailCategory), None, None)

\* -------------------------------------------------------- infer_category

keywords(cat_name) ==
    CASE cat_name = <<"E","a","t","/","D","r","i","n","k">> ->
           << <<"r","e","s","t","a","u","r","a","n","t">>, <<"c","a","f","e">>, <<"c","o","f","f","e","e">>, <<"b","a","r">>, <<"f","o","o","d">>, <<"b","u","r","r","i","t","o">>,
              <<"p","i","z","z","a">>, <<"b","r","e","w","e","r","y">>, <<"b","i","s","t","r","o">>, <<"d","i","n","e","r">> >>
      [] cat_name = <<"H","i","k","e">> ->
           << <<"t","r","a","i","l">>, <<"h","i","k","e">>, <<"h","i","k","i","n","g">>, <<"m","o","u","n","t","a","i","n">>, <<"s","u","m","m","i","t">>, <<"t","r","e","k">> >>
      [] cat_name = <<"C","i","t","y">> -> << <<"c","i","t","y">>, <<"t","o","w","n">>, <<"d","o","w","n","t","o","w","n">>, <<"u","r","b","a","n">> >>
      [] cat_name = <<"L","a","n","d","m","a","r","k">> ->
           << <<"m","o","n","u","m","e","n","t">>, <<"h","i","s","t","o","r","i","c">>, <<"b","u","i","l","d","i","n","g">>, <<"t","o","w","e","r">>, <<"s","t","a","t","u","e">>,
              <<"m","e","m","o","r","i","a","l">> >>
      [] cat_name = <<"P","o","i","n","t"," ","o","f"," ","I","n","t","e","r","e","s","t">> ->
           << <<"p","a","r","k">>, <<"m","u","s","e","u","m">>, <<"a","t","t","r","a","c","t","i","o","n">>, <<"v","i","e","w","p","o","i","n","t">>, <<"s","c","e","n","i","c">> >>

KeywordKeys ==
    {<<"E","a","t","/","D","r","i","n","k">>, <<"H","i","k","e">>, <<"C","i","t","y">>, <<"L","a","n","d","m","a","r","k">>, <<"P","o","i","n","t"," ","o","f"," ","I","n","t","e","r","e","s","t">>}

\* lines 471-476 for one category
CategoryMatches(cat_name, text) ==
    /\ cat_name \in KeywordKeys
    /\ \E k \in 1..Len(keywords(cat_name)) : Contains(text, keywords(cat_name)[k])

\* the inference returning the last matching category of the list
infer_category_last(name, description, categories) ==
    LET text == Lower(name \o <<" ">> \o description)
        hits == {k \in 1..Len(categories) : CategoryMatches(categories[k].name, text)}
    IN IF hits = {} THEN None ELSE Some(categories[Max(hits)].name)

\* infer_category(name, description, categories): None or the category name
infer_category(name, description, categories) ==
    LET text == Lower(name \o <<" ">> \o description)
        hits == {k \in 1..Len(categories) : CategoryMatches(categories[k].name, text)}
    IN IF hits = {} THEN None ELSE Some(categories[Min(hits)].name)

\* ---------------------------------------------------------------- inputs

\* the longest batch file, and the most rejected coordinate answers
MaxUrls == 2
MaxAttempts == 1

UrlGoogleLong == <<"h","t","t","p","s",":","/","/","m","a","p","s",".","g","o","o","g","l","e",".","c","o","m","/","m","a","p","s","?","c","i","d","=","7">>
UrlGoogleShort == <<"h","t","t","p","s",":","/","/","m","a","p","s",".","a","p","p",".","g","o","o",".","g","l","/","a","b","c">>
UrlGoogleOld == <<"h","t","t","p","s",":","/","/","g","o","o",".","g","l","/","m","a","p","s","/","x","y","z">>
UrlAppleLl == <<"h","t","t","p","s",":","/","/","m","a","p","s",".","a","p","p","l","e",".","c","o","m","/","?","l","l","=","6","1",".","2","1","8","1",",","-","1","4","9",".","9","0","0","3","&","q","=","B","e","s","t","+","B","u","r","r","i","t","o","+","C","a","f","e">>
UrlAppleAddress == <<"h","t","t","p","s",":","/","/","m","a","p","s",".","a","p","p","l","e",".","c","o","m","/","?","q","=","&","a","d","d","r","e","s","s","=","O","l","d","%","2","0","T","o","w","n">>
UrlAppleBadLl == <<"h","t","t","p","s",":","/","/","m","a","p","s",".","a","p","p","l","e",".","c","o","m","/","?","l","l","=","6","1","&","q","=","D","e","n","a","l","i","%","2","B","V","i","e","w","p","o","i","n","t","&","a","d","d","r","e","s","s","=","P","a","r","k","s","+","H","w","y">>
UrlApplePlain == <<"h","t","t","p","s",":","/","/","m","a","p","s",".","a","p","p","l","e",".","c","o","m","/","p","l","a","c","e","?","i","d","=","1">>
UrlTrail == <<"h","t","t","p","s",":","/","/","w","w","w",".","a","l","l","t","r","a","i","l","s",".","c","o","m","/","t","r","a","i","l","/","u","s","/","a","l","a","s","k","a","/","f","l","a","t","t","o","p","-","m","o","u","n","t","a","i","n">>
UrlTrailWidget == <<"h","t","t","p","s",":","/","/","w","w","w",".","a","l","l","t","r","a","i","l","s",".","c","o","m","/","w","i","d","g","e","t","/","t","r","a","i","l","/","u","s","/","a","l","a","s","k","a","/","w","i","n","n","e","r","-","c","r","e","e","k","/">>
UrlUnknown == <<"h","t","t","p","s",":","/","/","e","x","a","m","p","l","e",".","c","o","m","/","p","l","a","c","e">>
UrlGoogleInApple == <<"h","t","t","p","s",":","/","/","m","a","p","s",".","a","p","p","l","e",".","c","o","m","/","?","q","=","g","o","o",".","g","l","/","m","a","p","s">>
UrlAppleInTrail == <<"h","t","t","p","s",":","/","/","w","w","w",".","a","l","l","t","r","a","i","l","s",".","c","o","m","/","?","r","e","f","=","m","a","p","s",".","a","p","p","l","e",".","c","o","m">>

Urls ==
    {UrlGoogleLong, UrlGoogleShort, UrlGoogleOld, UrlAppleLl, UrlAppleAddress,
     UrlAppleBadLl, UrlApplePlain, UrlTrail, UrlTrailWidget, UrlUnknown,
     UrlGoogleInApple, UrlAppleInTrail, << >>}

\* resolved URLs of the Google fetch
FinalBoth == <<"h","t","t","p","s",":","/","/","w","w","w",".","g","o","o","g","l","e",".","c","o","m","/","m","a","p","s","/","p","l","a","c","e","/","X","/","@","6","1",".","1","0","0","0",",","-","1","4","9",".","1","0","0","0",",","1","5","z","/","d","a","t","a","=","!","3","d","6","1",".","2","1","8","1","!","4","d","-","1","4","9",".","9","0","0","3">>
FinalViewport == <<"h","t","t","p","s",":","/","/","w","w","w",".","g","o","o","g","l","e",".","c","o","m","/","m","a","p","s","/","@","6","1",".","1","0","0","0",",","-","1","4","9",".","1","0","0","0",",","1","5","z">>
FinalViewportQuery == <<"h","t","t","p","s",":","/","/","w","w","w",".","g","o","o","g","l","e",".","c","o","m","/","m","a","p","s","/","@","6","1",".","1","0","0","0",",","-","1","4","9",".","1","0","0","0",",","1","5","z","?","h","l","=","e","n","&","q","=","6","1",".","3","0","0","0",",","-","1","4","9",".","3","0","0","0">>
FinalQuery == <<"h","t","t","p","s",":","/","/","m","a","p","s",".","g","o","o","g","l","e",".","c","o","m","/","?","q","=","6","1",".","3","0","0","0",",","-","1","4","9",".","3","0","0","0">>
FinalPlaceQuery == <<"h","t","t","p","s",":","/","/","m","a","p","s",".","g","o","o","g","l","e",".","c","o","m","/","?","q","=","6","1",".","3","0","0","0",",","-","1","4","9",".","3","0","0","0","&","d","a","t","a","=","!","3","d","6","1",".","2","1","8","1","!","4","d","-","1","4","9",".","9","0","0","3">>
FinalBare == <<"h","t","t","p","s",":","/","/","w","w","w",".","g","o","o","g","l","e",".","c","o","m","/","m","a","p","s","?","c","i","d","=","7">>

GoogleFinalUrls ==
    {FinalBoth, FinalViewport, FinalViewportQuery, FinalQuery, FinalPlaceQuery, FinalBare}

HtmlCenter == <<"<","s","c","r","i","p","t",">","{","\"","c","e","n","t","e","r","\"",":","{","\"","l","a","t","\"",":","6","1",".","4","0","0","0",",","\"","l","n","g","\"",":","-","1","4","9",".","4","0","0","0","}","}","<","/","s","c","r","i","p","t",">">>
HtmlPlain == <<"<","h","t","m","l",">","<","/","h","t","m","l",">">>

GooglePages ==
    {[html |-> HtmlPlain, tags |-> << >>],
     [html |-> HtmlCenter,
      tags |-> << MetaTag(<<"o","g",":","t","i","t","l","e">>, Some(<<" ","B","e","s","t"," ","B","u","r","r","i","t","o"," ","C","a","f","e"," ">>)) >>],
     [html |-> HtmlPlain,
      tags |-> << MetaTag(<<"o","g",":","t","i","t","l","e">>, Some(<<"Q","w","x">>)),
                  MetaTag(<<"o","g",":","d","e","s","c","r","i","p","t","i","o","n">>, Some(<<"Z","z","z">>)) >>],
     [html |-> HtmlCenter,
      tags |-> << MetaTag(<<"o","g",":","d","e","s","c","r","i","p","t","i","o","n">>, Some(<<"H","i","s","t","o","r","i","c"," ","T","o","w","e","r"," ","C","a","f","e">>)),
                  MetaTag(<<"o","g",":","t","i","t","l","e">>, None) >>],
     [html |-> HtmlCenter,
      tags |-> << MetaTag(<<"o","g",":","d","e","s","c","r","i","p","t","i","o","n">>, Some(<<"O","l","d"," ","H","a","r","b","o","r"," ","M","u","s","e","u","m">>)) >>]}

\* what the Google fetch answers: every resolved URL with a page that has a
\* center, and every page under a resolved URL without coordinates
GoogleResponses ==
    {FetchFailed}
    \cup {Response(f, HtmlCenter, << >>) : f \in GoogleFinalUrls}
    \cup {Response(FinalBare, p.html, p.tags) : p \in GooglePages}
    \cup {Response(FinalViewport, p.html, p.tags) : p \in GooglePages}

AppleResponses ==
    {FetchFailed,
     Response(<< >>, <<"{","\"","l","a","t","i","t","u","d","e","\"",":","6","1",".","5","0","0","0",",","\"","l","o","n","g","i","t","u","d","e","\"",":","-","1","4","9",".","5","0","0","0","}">>, << >>),
     Response(<< >>, HtmlPlain, << >>)}

\* the parts of an AllTrails page: a head naming the trail, a body locating
\* it, and its metrics
TrailHeads ==
    {<<"<","m","e","t","a"," ","p","r","o","p","e","r","t","y","=","\"","o","g",":","t","i","t","l","e","\""," ","c","o","n","t","e","n","t","=","\"","F","l","a","t","t","o","p"," ","M","o","u","n","t","a","i","n"," ","-"," ","A","l","a","s","k","a"," ","|"," ","A","l","l","T","r","a","i","l","s","\"",">">>,
     <<"<","t","i","t","l","e",">","A","l","l","T","r","a","i","l","s","<","/","t","i","t","l","e",">","<","d","i","v"," ","d","a","t","a","-","n","a","m","e","=","\"","W","i","n","n","e","r"," ","C","r","e","e","k","\"",">">>,
     <<"<","m","e","t","a"," ","p","r","o","p","e","r","t","y","=","\"","o","g",":","t","i","t","l","e","\""," ","c","o","n","t","e","n","t","=","\""," ","|"," ","A","l","l","T","r","a","i","l","s","\"",">","<","t","i","t","l","e",">","B","y","r","o","n"," ","G","l","a","c","i","e","r"," ","|"," ","A","l","l","T","r","a","i","l","s","<","/","t","i","t","l","e",">">>,
     <<"<","m","e","t","a"," ","p","r","o","p","e","r","t","y","=","\"","o","g",":","t","i","t","l","e","\""," ","c","o","n","t","e","n","t","=","\"","A","l","l","T","r","a","i","l","s","\"",">","<","t","i","t","l","e",">","H","i","k","e","<","/","t","i","t","l","e",">","<","d","i","v"," ","d","a","t","a","-","n","a","m","e","=","\"","A","l","l","T","r","a","i","l","s","\"",">">>,
     <<"<","t","i","t","l","e",">","A","l","l","T","r","a","i","l","s","<","/","t","i","t","l","e",">">>,
     <<"<","h","t","m","l",">">>}

TrailBodies ==
    {<<"{","\"","l","a","t","\"",":","6","1",".","1","7","9","6",",","\"","l","n","g","\"",":","-","1","4","9",".","8","3","5","3","}">>,
     <<"{","\"","l","a","t","i","t","u","d","e","\"",":","6","1",".","1","7","9","6",",","\"","l","o","n","g","i","t","u","d","e","\"",":","-","1","4","9",".","8","3","5","3","}">>,
     <<"<","d","i","v"," ","d","a","t","a","-","l","a","t","=","\"","6","0",".","9","\""," "," ","d","a","t","a","-","l","n","g","=","\"","-","1","4","9",".","1","\"",">">>,
     <<"c","e","n","t","e","r",":"," ","[","6","1",".","1","7","9","6",","," ","-","1","4","9",".","8","3","5","3","]">>,
     <<"c","e","n","t","e","r",":"," ","[","6","0",".","0",","," ","-","1","5","0",".","0","]"," ","{","\"","l","a","t","i","t","u","d","e","\"",":","6","1",".","5",",","\"","l","o","n","g","i","t","u","d","e","\"",":","-","1","4","9",".","5","}">>,
     <<"<","s","c","r","i","p","t"," ","t","y","p","e","=","\"","a","p","p","l","i","c","a","t","i","o","n","/","l","d","+","j","s","o","n","\"",">">> \o LdTrail \o <<"<","/","s","c","r","i","p","t",">">>,
     <<"<","s","c","r","i","p","t"," ","t","y","p","e","=","\"","a","p","p","l","i","c","a","t","i","o","n","/","l","d","+","j","s","o","n","\"",">">> \o LdList \o <<"<","/","s","c","r","i","p","t",">">>,
     <<"<","s","c","r","i","p","t"," ","t","y","p","e","=","\"","a","p","p","l","i","c","a","t","i","o","n","/","l","d","+","j","s","o","n","\"",">">> \o LdHalf \o <<"<","/","s","c","r","i","p","t",">">>,
     <<"<","s","c","r","i","p","t"," ","t","y","p","e","=","\"","a","p","p","l","i","c","a","t","i","o","n","/","l","d","+","j","s","o","n","\"",">">> \o LdNoGeo \o <<"<","/","s","c","r","i","p","t",">">>,
     <<"<","s","c","r","i","p","t"," ","t","y","p","e","=","\"","a","p","p","l","i","c","a","t","i","o","n","/","l","d","+","j","s","o","n","\"",">">> \o LdBroken \o <<"<","/","s","c","r","i","p","t",">">>,
     <<"{","\"","l","a","t","\"",":","1","-","2",",","\"","l","n","g","\"",":","3","}">>,
     <<"<","b","o","d","y",">">>}

TrailMetrics ==
    {<<"<","/","h","t","m","l",">">>,
     <<"{","\"","l","e","n","g","t","h","\"",":","8","0","4","7",",","\"","e","l","e","v","a","t","i","o","n","G","a","i","n","\"",":","5","0","0","}">>,
     <<"<","p"," ","d","a","t","a","-","l","e","n","g","t","h","=","\"","8","0","\""," ","d","a","t","a","-","e","l","e","v","a","t","i","o","n","=","\"","4","1","1",".","5","\"",">">>,
     <<"{","\"","l","e","n","g","t","h","\"",":","1","2","8","7","5",".","9",",","\"","e","l","e","v","a","t","i","o","n","G","a","i","n","\"",":","1","2","0","0","0","}">>,
     <<"{","\"","l","e","n","g","t","h","\"",":","9","9",",","\"","e","l","e","v","a","t","i","o","n","G","a","i","n","\"",":","1","0","0","0","0","}"," ","d","a","t","a","-","l","e","n","g","t","h","=","\"","8","0","4","7","\"">>,
     <<"{","\"","l","e","n","g","t","h","\"",":","1","0","0",",","\"","e","l","e","v","a","t","i","o","n","G","a","i","n","\"",":","9","9","9","9","}">>,
     <<"{","\"","l","e","n","g","t","h","\"",":","1","6","1",",","\"","e","l","e","v","a","t","i","o","n","G","a","i","n","\"",":","5","0","0","0","0","0","}">>,
     <<"{","\"","l","e","n","g","t","h","\"",":","1",".","2",".","3","}">>}

HeadOg == <<"<","m","e","t","a"," ","p","r","o","p","e","r","t","y","=","\"","o","g",":","t","i","t","l","e","\""," ","c","o","n","t","e","n","t","=","\"","F","l","a","t","t","o","p"," ","M","o","u","n","t","a","i","n"," ","-"," ","A","l","a","s","k","a"," ","|"," ","A","l","l","T","r","a","i","l","s","\"",">">>
BodyCompact == <<"{","\"","l","a","t","\"",":","6","1",".","1","7","9","6",",","\"","l","n","g","\"",":","-","1","4","9",".","8","3","5","3","}">>
MetricsNone == <<"<","/","h","t","m","l",">">>

\* the pages fetched: every head, every body and every metrics part, the other
\* two parts being the first of their kind
TrailPages ==
    {h \o BodyCompact \o MetricsNone : h \in TrailHeads}
    \cup {HeadOg \o b \o MetricsNone : b \in TrailBodies}
    \cup {HeadOg \o BodyCompact \o m : m \in TrailMetrics}
    \cup {<<"<","h","t","m","l",">">> \o <<"<","b","o","d","y",">">> \o m : m \in TrailMetrics}

AlltrailsResponses(u) ==
    {FetchFailed} \cup
    {Response(WidgetUrl(u), p, << >>) : p \in TrailPages}

\* what the operator types at the prompts of fetch_alltrails_manual
ManualNames == {<<"F","l","a","t","t","o","p">>, << >>}
ManualAnswers == {<<"6","1",".","1","7","9","6">>, <<"-","1","4","9",".","8","3","5","3">>, <<"a","b","c">>, << >>}
ManualDistances == {<< >>, <<"3",".","5">>}
ManualElevations == {<< >>, <<"1","3","5","0">>}

\* what the operator types at the prompts of process_single_url
CustomDescriptions == {<< >>, <<"A"," ","c","u","s","t","o","m"," ","n","o","t","e">>}
LearnMoreLinks == {<< >>, <<"h","t","t","p","s",":","/","/","w",".","o","r","g">>}
ContinueResponses == {"y", "n"}

Category(id, name) == [id |-> id, name |-> name]

\* the rows of the categories table, in the order the query returns them
CategoryTables ==
    {<< Category(1, <<"E","a","t","/","D","r","i","n","k">>), Category(2, <<"H","i","k","e">>), Category(3, <<"C","i","t","y">>),
        Category(4, <<"L","a","n","d","m","a","r","k">>), Category(5, <<"P","o","i","n","t"," ","o","f"," ","I","n","t","e","r","e","s","t">>) >>,
     << Category(2, <<"H","i","k","e">>), Category(4, <<"L","a","n","d","m","a","r","k">>), Category(1, <<"E","a","t","/","D","r","i","n","k">>) >>,
     << Category(6, <<"C","a","m","p","i","n","g">>), Category(7, <<"h","i","k","e">>) >>}

\* ----------------------------------------------------------------- state

VARIABLES
    NON_INTERACTIVE,    \* the global flag set from --non-interactive
    mode,               \* "batch": the argument is a file; "single": a URL
    nurls,              \* len(urls)
    i,                  \* the index of the URL being processed, 1-based
    success_count,
    pc,                 \* where the program is
    url,                \* the URL being processed
    service,            \* what detect_maps_service answered for it
    fetched,            \* the URL passed to urlopen for it, None when none was
    resp,               \* what urlopen answered
    data,               \* the extractor's candidate
    suggested_category, \* what infer_category returned
    categories_cache,   \* _categories_cache
    new_pin,            \* the record passed to insert_pin
    db_pin,             \* the row inserted
    pins,               \* the number of rows of the pins table
    exit_code,          \* the status the process ended with
    outcome,            \* why it ended
    calls,              \* the calls made while processing this URL
    manual,             \* the coordinate answers fetch_alltrails_manual accepted
    attempts,           \* the coordinate answers it rejected
    prompted            \* whether input() has been called in this run

vars ==
    << NON_INTERACTIVE, mode, nurls, i, success_count, pc, url, service, fetched,
       resp,
       data, suggested_category, categories_cache, new_pin, db_pin, pins,
       exit_code, outcome, calls, manual, attempts, prompted >>

NoCalls == [extractor |-> "", manual |-> 0, infer |-> 0, insert |-> 0]

Init ==
    /\ NON_INTERACTIVE \in BOOLEAN
    /\ mode \in {"single", "batch"}
    /\ nurls \in (IF mode = "batch" THEN 0..MaxUrls ELSE {1})
    /\ i = 0
    /\ success_count = 0
    /\ pc = "start"
    /\ url = << >>
    /\ service = Unknown
    /\ fetched = None
    /\ resp = None
    /\ data = None
    /\ suggested_category = None
    /\ categories_cache = None
    /\ new_pin = None
    /\ db_pin = None
    /\ pins = 0
    /\ exit_code = None
    /\ outcome = "running"
    /\ calls = NoCalls
    /\ manual = None
    /\ attempts = 0
    /\ prompted = FALSE

\* ------------------------------------------------------------------ main

\* sys.exit(code), or the interpreter ending the process
Exit(code, why) ==
    /\ pc' = "exited"
    /\ exit_code' = Some(code)
    /\ outcome' = why

Goto(label) ==
    /\ pc' = label
    /\ UNCHANGED << exit_code, outcome >>

\* what process_single_url and the functions it calls hold for one URL
Locals ==
    << url, service, fetched, resp, data, suggested_category, new_pin, db_pin,
       calls, manual, attempts >>

\* the locals of process_single_url, gone when it has returned or was left
ClearLocals ==
    /\ url' = << >>
    /\ service' = Unknown
    /\ fetched' = None /\ resp' = None /\ data' = None
    /\ suggested_category' = None
    /\ new_pin' = None /\ db_pin' = None
    /\ calls' = NoCalls /\ manual' = None /\ attempts' = 0

\* an Exception leaves process_single_url
Raised == Goto("raised") /\ ClearLocals

(***************************************************************************)
(* An Exception that left process_single_url.  In single mode nothing      *)
(* catches it.  In batch mode lines 681-688 catch it: non-interactive mode *)
(* exits, otherwise the operator is asked whether to continue and any      *)
(* answer but 'y' breaks out of the loop to the summary.                   *)
(***************************************************************************)
HandleException ==
    /\ pc = "raised"
    /\ IF mode = "single" \/ NON_INTERACTIVE
       THEN Exit(1, "exception") /\ UNCHANGED << Locals, prompted >>
       ELSE /\ prompted' = TRUE
            /\ \E continue_response \in ContinueResponses :
                  IF continue_response # "y"
                  THEN Exit(0, "declined") /\ UNCHANGED Locals
                  ELSE Goto("start") /\ ClearLocals
    /\ UNCHANGED << NON_INTERACTIVE, mode, nurls, i, success_count,
                    categories_cache, pins >>

\* lines 661-663
EmptyFile ==
    /\ pc = "start" /\ mode = "batch" /\ nurls = 0
    /\ Exit(1, "no_urls")
    /\ UNCHANGED << NON_INTERACTIVE, mode, nurls, i, success_count, url, service, fetched,
                    resp, data, suggested_category, categories_cache, new_pin,
                    db_pin, pins, calls, manual, attempts >>
    /\ UNCHANGED prompted

\* line 668 (the next URL of the file, which line 659 read: stripped and not
\* empty) or line 696 (the one URL, any argument), and line 484
ReadUrl ==
    /\ pc = "start" /\ i < nurls
    /\ i' = i + 1
    /\ url' \in (IF mode = "batch" THEN Urls \ {<< >>} ELSE Urls)
    /\ service' = detect_maps_service(url')
    /\ Goto("process")
    /\ UNCHANGED << suggested_category, NON_INTERACTIVE,
                    mode, nurls, success_count, fetched, resp,
                    data, categories_cache, new_pin, db_pin, pins, calls, manual,
                    attempts >>
    /\ UNCHANGED prompted

\* lines 690-692: the loop is over
BatchComplete ==
    /\ pc = "start" /\ mode = "batch" /\ nurls > 0 /\ i = nurls
    /\ Exit(0, "complete")
    /\ UNCHANGED << NON_INTERACTIVE, mode, nurls, i, success_count, url, service, fetched,
                    resp, data, suggested_category, categories_cache, new_pin,
                    db_pin, pins, calls, manual, attempts >>
    /\ UNCHANGED prompted

\* lines 676-680: Ctrl-C while a URL of the batch is processed
KeyboardInterrupt ==
    /\ mode = "batch" /\ pc \in {"process", "manual", "compose", "insert"}
    /\ Exit(0, "interrupted")
    /\ ClearLocals
    /\ UNCHANGED << NON_INTERACTIVE, mode, nurls, i, success_count,
                    categories_cache, pins >>
    /\ UNCHANGED prompted

\* ---------------------------------------------------- process_single_url

\* the checks without the one on the coordinates
AfterExtractUnchecked(d) ==
    /\ data' = d
    /\ IF IsNone(d) THEN Exit(1, "fetch_failed") ELSE Goto("compose")

\* lines 504-510, on what the extractor returned
AfterExtract(d) ==
    /\ data' = d
    /\ IF IsNone(d) THEN Exit(1, "fetch_failed")
       ELSE IF IsNone(Val(d).coordinates) THEN Exit(1, "no_coordinates")
       ELSE Goto("compose")

\* lines 496-502
ProcessUnknown ==
    /\ pc = "process" /\ service = Unknown
    /\ Exit(1, "unrecognized")
    /\ UNCHANGED << NON_INTERACTIVE, mode, nurls, i, success_count, url, service, fetched,
                    resp, data, suggested_category, categories_cache, new_pin,
                    db_pin, pins, calls, manual, attempts >>
    /\ UNCHANGED prompted

\* lines 487-489 and 504-510
ProcessGoogle ==
    /\ pc = "process" /\ service = "google"
    /\ \E r \in GoogleResponses :
          /\ fetched' = Some(url)
          /\ resp' = Some(r)
          /\ AfterExtract(fetch_google_maps_data(url, r))
    /\ calls' = [calls EXCEPT !.extractor = "fetch_google_maps_data"]
    /\ UNCHANGED << suggested_category, NON_INTERACTIVE,
                    mode, nurls, i, success_count, url, service,
                    categories_cache, new_pin, db_pin, pins, manual, attempts >>
    /\ UNCHANGED prompted

\* lines 490-492 and 504-510
ProcessApple ==
    /\ pc = "process" /\ service = "apple"
    /\ IF AppleFetches(url)
       THEN \E r \in AppleResponses :
               /\ fetched' = Some(url)
               /\ resp' = Some(r)
               /\ AfterExtract(fetch_apple_maps_data(url, r))
       ELSE /\ fetched' = None
            /\ resp' = None
            /\ AfterExtract(fetch_apple_maps_data(url, FetchFailed))
    /\ calls' = [calls EXCEPT !.extractor = "fetch_apple_maps_data"]
    /\ UNCHANGED << suggested_category, NON_INTERACTIVE,
                    mode, nurls, i, success_count, url, service,
                    categories_cache, new_pin, db_pin, pins, manual, attempts >>
    /\ UNCHANGED prompted

\* lines 493-495 and 504-510; the manual entry of line 273 is ManualEntry
ProcessAlltrails ==
    /\ pc = "process" /\ service = "alltrails"
    /\ \E r \in AlltrailsResponses(url) :
          IF r.ok /\ (AlltrailsCoordinatesRaise(r.html) \/ AlltrailsMetricsRaise(r.html))
          THEN /\ Goto("raised")
               /\ fetched' = Some(WidgetUrl(url))
               /\ resp' = Some(r)
               /\ data' = None
               /\ calls' = [calls EXCEPT !.extractor = "fetch_alltrails_data"]
               /\ UNCHANGED << url, service, suggested_category, new_pin, db_pin,
                               manual, attempts, prompted >>
          ELSE /\ fetched' = Some(WidgetUrl(url))
               /\ resp' = Some(r)
               /\ IF r.ok
                  THEN /\ calls' = [calls EXCEPT !.extractor = "fetch_alltrails_data"]
                       /\ AfterExtract(Some(AlltrailsCandidate(url, r.html)))
                       /\ UNCHANGED prompted
                  ELSE /\ data' = None
                       /\ IF NON_INTERACTIVE
                          THEN /\ Exit(1, "fetch_failed_noninteractive")
                               /\ calls' = [calls EXCEPT
                                               !.extractor = "fetch_alltrails_data"]
                               /\ UNCHANGED prompted
                          ELSE /\ Goto("manual")
                               /\ prompted' = TRUE
                               /\ calls' = [calls EXCEPT
                                               !.extractor = "fetch_alltrails_data",
                                               !.manual = @ + 1]
               /\ UNCHANGED << url, service, suggested_category, new_pin, db_pin, manual,
                               attempts >>
    /\ UNCHANGED << NON_INTERACTIVE, mode, nurls, i, success_count,
                    categories_cache, pins >>

\* lines 211-220: an answer float() rejects, and the prompt again
ManualInvalid ==
    /\ pc = "manual" /\ attempts < MaxAttempts
    /\ \E lat_str \in ManualAnswers, lng_str \in ManualAnswers :
          ~ManualCoordinatesValid(lat_str, lng_str)
    /\ attempts' = attempts + 1
    /\ UNCHANGED << suggested_category, NON_INTERACTIVE,
                    mode, nurls, i, success_count, pc, url, service,
                    fetched, resp, data, categories_cache, new_pin, db_pin, pins,
                    exit_code, outcome, calls, manual >>
    /\ UNCHANGED prompted

\* fetch_alltrails_manual returning, and lines 504-510
ManualEntry ==
    /\ pc = "manual"
    /\ \E name \in ManualNames, lat_str \in ManualAnswers, lng_str \in ManualAnswers,
          distance \in ManualDistances, elevation \in ManualElevations :
          /\ ManualCoordinatesValid(lat_str, lng_str)
          /\ manual' = Some([lat_str |-> lat_str, lng_str |-> lng_str])
          /\ AfterExtract(Some(fetch_alltrails_manual(url, name, lat_str, lng_str,
                                                       distance, elevation)))
    /\ UNCHANGED << suggested_category, NON_INTERACTIVE,
                    mode, nurls, i, success_count, url, service, fetched,
                    resp, categories_cache, new_pin, db_pin, pins, calls, attempts >>
    /\ UNCHANGED prompted

\* the record handed to insert_pin; a key that is not set is None
Pin(name, coordinates, description, category, link, maps_link, distance, elevation_gain) ==
    [name |-> name, coordinates |-> coordinates, description |-> description,
     category |-> category, link |-> link, maps_link |-> maps_link,
     distance |-> distance, elevation_gain |-> elevation_gain]

\* lines 524-534 and 566, 587-593: the description of the record
ComposedDescription(d, custom_desc) ==
    IF ~NON_INTERACTIVE /\ custom_desc # << >> THEN Some(custom_desc)
    ELSE OrElse(d.description, d.name)

\* the record with its category taken from the trail's name
AlltrailsPinNamed(d, u, custom_desc) ==
    Pin(d.name, d.coordinates, ComposedDescription(d, custom_desc),
        OrElse(d.name, Some(TrailCategory))[1],
        Some(u), None, d.distance, d.elevation_gain)

\* lines 519-549
AlltrailsPin(d, u, custom_desc) ==
    Pin(d.name, d.coordinates, ComposedDescription(d, custom_desc),
        IF IsNone(d.category) THEN TrailCategory ELSE Val(d.category),
        Some(u), None, d.distance, d.elevation_gain)

\* lines 599-610
MapsPin(d, u, category, custom_desc, learn_more_link) ==
    Pin(d.name, d.coordinates, ComposedDescription(d, custom_desc), category,
        IF learn_more_link # << >> THEN Some(learn_more_link) ELSE None,
        Some(u), None, None)

\* data['name'] or ''
OrEmpty(o) == IF Truthy(o) THEN Val(o) ELSE << >>

(***************************************************************************)
(* get_categories() at line 517: the cached rows, or the rows the query    *)
(* returns, cached.  The query raising leaves the cache empty.             *)
(***************************************************************************)
CategoriesReturned ==
    IF IsNone(categories_cache) THEN CategoryTables ELSE {Val(categories_cache)}

\* lines 512-517 raising: the categories query fails
ComposeRaises ==
    /\ pc = "compose" /\ IsNone(categories_cache)
    /\ Raised
    /\ UNCHANGED << NON_INTERACTIVE, mode, nurls, i, success_count,
                    categories_cache, pins >>
    /\ UNCHANGED prompted

\* a description prompt that does not look at the flag
DescriptionPromptAlways == TRUE

\* lines 525-530: whether the description of a trail is asked for
DescriptionPromptReached == ~NON_INTERACTIVE

\* lines 512-549
ComposeAlltrails ==
    /\ pc = "compose" /\ service = "alltrails"
    /\ \E categories \in CategoriesReturned,
          custom_desc \in (IF DescriptionPromptReached THEN CustomDescriptions
                           ELSE {<< >>}) :
          /\ categories_cache' = Some(categories)
          /\ new_pin' = Some(AlltrailsPin(Val(data), url, custom_desc))
    /\ prompted' = (prompted \/ DescriptionPromptReached)
    /\ resp' = None
    /\ Goto("insert")
    /\ UNCHANGED << suggested_category, NON_INTERACTIVE,
                    mode, nurls, i, success_count, url, service, fetched,
                    data, db_pin, pins, calls, manual, attempts >>

\* lines 512-517 and 551-610
ComposeMaps ==
    /\ pc = "compose" /\ service \in {"google", "apple"}
    /\ \E categories \in CategoriesReturned :
          LET d == Val(data)
              suggested ==
                  infer_category(OrEmpty(d.name), OrEmpty(d.description), categories)
          IN /\ categories_cache' = Some(categories)
             /\ suggested_category' = suggested
             /\ IF NON_INTERACTIVE
                THEN IF IsNone(suggested)
                     THEN /\ Exit(1, "no_category_noninteractive")
                          /\ new_pin' = None
                          /\ UNCHANGED prompted
                     ELSE /\ Goto("insert")
                          /\ new_pin' = Some(MapsPin(d, url, Val(suggested),
                                                     << >>, << >>))
                          /\ UNCHANGED prompted
                ELSE \E choice \in 1..Len(categories),
                        custom_desc \in CustomDescriptions,
                        learn_more_link \in LearnMoreLinks :
                        /\ Goto("insert")
                        /\ new_pin' = Some(MapsPin(d, url, categories[choice].name,
                                                   custom_desc, learn_more_link))
                        /\ prompted' = TRUE
    /\ calls' = [calls EXCEPT !.infer = @ + 1]
    /\ resp' = None
    /\ UNCHANGED << NON_INTERACTIVE, mode, nurls, i, success_count, url, service, fetched,
                    data, db_pin, pins, manual, attempts >>

\* ------------------------------------------------------------ insert_pin

\* lines 69-75: the id of the first category of that name, case ignored; 0
\* when there is none
CategoryId(categories, category_name) ==
    LET hits == {k \in 1..Len(categories) :
                    Lower(categories[k].name) = Lower(category_name)}
    IN IF hits = {} THEN 0 ELSE categories[Min(hits)].id

\* pin_data.get(key), kept when it is true
IfTrueNumber(o) == IF ~IsNone(o) /\ Val(o) # 0 THEN o ELSE None
IfTrueText(o) == IF Truthy(o) THEN o ELSE None

\* lines 81-107
DbPin(p, category_id) ==
    [name |-> p.name,
     lat |-> Val(p.coordinates)[1],
     lng |-> Val(p.coordinates)[2],
     description |-> p.description,
     category_id |-> category_id,
     link |-> IfTrueText(p.link),
     maps_link |-> IfTrueText(p.maps_link),
     distance |-> IfTrueNumber(p.distance),
     elevation_gain |-> IfTrueNumber(p.elevation_gain)]

(***************************************************************************)
(* Line 613, insert_pin(new_pin), and the return of process_single_url:    *)
(* lines 615-619, then lines 674-675 (the batch loop goes on) or line 696  *)
(* (the run is over).                                                      *)
(***************************************************************************)
InsertPin ==
    /\ pc = "insert"
    /\ LET p == Val(new_pin)
           category_id == CategoryId(Val(categories_cache), p.category)
       IN IF category_id = 0
          THEN /\ Exit(1, "category_not_found")
               /\ calls' = [calls EXCEPT !.insert = @ + 1]
               /\ UNCHANGED << success_count, url, service, fetched, resp, data,
                               suggested_category, new_pin, db_pin, pins, manual,
                               attempts >>
          ELSE \E inserted \in BOOLEAN :
                  IF ~inserted
                  THEN Raised /\ UNCHANGED << success_count, pins >>
                  ELSE /\ pins' = pins + 1
                       /\ IF mode = "batch"
                          THEN /\ success_count' = success_count + 1
                               /\ Goto("start")
                               /\ ClearLocals
                          ELSE /\ Exit(0, "complete")
                               /\ db_pin' = Some(DbPin(p, category_id))
                               /\ calls' = [calls EXCEPT !.insert = @ + 1]
                               /\ UNCHANGED << success_count, url, service, fetched, resp,
                                               data, suggested_category, new_pin,
                                               manual, attempts >>
    /\ UNCHANGED << NON_INTERACTIVE, mode, nurls, i, categories_cache >>
    /\ UNCHANGED prompted

Next ==
    \/ EmptyFile
    \/ ReadUrl
    \/ BatchComplete
    \/ KeyboardInterrupt
    \/ ProcessUnknown
    \/ ProcessGoogle
    \/ ProcessApple
    \/ ProcessAlltrails
    \/ ManualInvalid
    \/ ManualEntry
    \/ ComposeRaises
    \/ ComposeAlltrails
    \/ ComposeMaps
    \/ InsertPin
    \/ HandleException

Spec == Init /\ [][Next]_vars

\* ------------------------------------------------------------ properties

\* the page fetch_google_maps_data read is still at hand
GoogleFetched ==
    /\ calls.extractor = "fetch_google_maps_data"
    /\ ~IsNone(resp) /\ Val(resp).ok

\* the page fetch_alltrails_data read is still at hand, and its candidate
AlltrailsFetched ==
    /\ calls.extractor = "fetch_alltrails_data"
    /\ ~IsNone(resp) /\ Val(resp).ok /\ ~IsNone(data)

\* the fetch of fetch_alltrails_data raised
AlltrailsFetchFailed ==
    /\ calls.extractor = "fetch_alltrails_data"
    /\ ~IsNone(resp) /\ ~Val(resp).ok

BeginsWith(o, p) == ~IsNone(o) /\ IsPrefixAt(Val(o), p, 1)

(***************************************************************************)
(* C1: after a successful fetch, fetch_google_maps_data returns a          *)
(* candidate whose coordinates are those of the first source that matches, *)
(* in the order place marker (!3d..!4d..), viewport centre (@..,..), q=    *)
(* parameter, "center" pair of the body; a resolved URL with both a place  *)
(* marker and a different viewport centre yields the place marker's pair;  *)
(* when no source matches the candidate has no coordinates.                *)
(***************************************************************************)
C1_GooglePrecedence ==
    GoogleFetched =>
        LET final_url == Val(resp).final_url
            html == Val(resp).html
            place == ReSearch(PlacePattern, final_url)
            viewport == ReSearch(ViewportPattern, final_url)
            query == ReSearch(QueryPattern, final_url)
            center == ReSearch(CenterPattern, html)
            Found(s, m) == Some(<< Float(Group(s, m, 1), 4).v,
                                   Float(Group(s, m, 2), 4).v >>)
        IN /\ ~IsNone(data)
           /\ place.ok => Val(data).coordinates = Found(final_url, place)
           /\ (~place.ok /\ viewport.ok) =>
                  Val(data).coordinates = Found(final_url, viewport)
           /\ (~place.ok /\ ~viewport.ok /\ query.ok) =>
                  Val(data).coordinates = Found(final_url, query)
           /\ (~place.ok /\ ~viewport.ok /\ ~query.ok /\ center.ok) =>
                  Val(data).coordinates = Found(html, center)
           /\ (~place.ok /\ ~viewport.ok /\ ~query.ok /\ ~center.ok) =>
                  IsNone(Val(data).coordinates)
           /\ (place.ok /\ viewport.ok
                 /\ Found(final_url, place) # Found(final_url, viewport)) =>
                  Val(data).coordinates # Found(final_url, viewport)

\* a resolved URL with both markers, and the place marker's pair returned
C1_PlaceBeatsViewport ==
    /\ GoogleFetched
    /\ Val(resp).final_url = FinalBoth
    /\ Val(data).coordinates = Some(<< 612181, -1499003 >>)

(***************************************************************************)
(* C2: insert_pin is never called with a record without coordinates: the   *)
(* record composed for it has both, and a candidate without coordinates    *)
(* ends the processing of its URL before any record is composed.           *)
(***************************************************************************)
C2_NoInsertWithoutCoordinates ==
    /\ pc = "insert" => ~IsNone(new_pin)
    /\ ~IsNone(new_pin) =>
          /\ ~IsNone(Val(new_pin).coordinates)
          /\ Len(Val(Val(new_pin).coordinates)) = 2
    /\ calls.insert > 0 => ~IsNone(new_pin)
    /\ (~IsNone(data) /\ IsNone(Val(data).coordinates)) =>
          /\ pc = "exited" /\ exit_code = Some(1)
          /\ IsNone(new_pin) /\ calls.insert = 0 /\ IsNone(db_pin)
    /\ (IsNone(data) /\ pc # "start") => (IsNone(new_pin) /\ calls.insert = 0)

\* insert_pin was called, and inserted a row with both coordinates
C2_Inserted ==
    /\ calls.insert = 1
    /\ ~IsNone(db_pin)
    /\ Val(db_pin).lat = Val(Val(new_pin).coordinates)[1]
    /\ Val(db_pin).lng = Val(Val(new_pin).coordinates)[2]

(***************************************************************************)
(* C3 as the specification states it: whenever the fetch of                *)
(* fetch_alltrails_data fails, fetch_alltrails_manual is invoked exactly   *)
(* once and the processing is not aborted.                                 *)
(***************************************************************************)
C3_ManualEntryAlways ==
    AlltrailsFetchFailed => (calls.manual = 1 /\ pc \in {"manual", "compose"})

(***************************************************************************)
(* C3: when the fetch of fetch_alltrails_data fails and non-interactive    *)
(* mode is not set, fetch_alltrails_manual is invoked exactly once, the    *)
(* processing goes on, and the candidate returned has category 'Hike' and  *)
(* the coordinates the operator typed; in non-interactive mode the process *)
(* exits with status 1 and fetch_alltrails_manual is not invoked.          *)
(***************************************************************************)
C3_ManualEntryWhenInteractive ==
    /\ (AlltrailsFetchFailed /\ ~NON_INTERACTIVE) =>
          /\ calls.manual = 1
          /\ fetched = Some(WidgetUrl(url))
          /\ pc \in {"manual", "compose"}
          /\ pc = "manual" => (IsNone(data) /\ IsNone(manual))
          /\ pc = "compose" =>
                /\ ~IsNone(manual) /\ ~IsNone(data)
                /\ Val(data).category = Some(<<"H","i","k","e">>)
                /\ Val(data).coordinates =
                      Some(<< Float(Val(manual).lat_str, 4).v,
                              Float(Val(manual).lng_str, 4).v >>)
                /\ (Val(manual).lat_str = <<"6","1",".","1","7","9","6">>
                      /\ Val(manual).lng_str = <<"-","1","4","9",".","8","3","5","3">>) =>
                      Val(data).coordinates = Some(<< 611796, -1498353 >>)
    /\ (AlltrailsFetchFailed /\ NON_INTERACTIVE) =>
          /\ calls.manual = 0 /\ IsNone(manual) /\ IsNone(data)
          /\ pc = "exited" /\ exit_code = Some(1)
    /\ calls.manual <= 1
    /\ ~IsNone(manual) => (calls.manual = 1 /\ ~NON_INTERACTIVE)

\* the fetch failed, an answer was rejected, and the typed pair was returned
C3_ManualCandidate ==
    /\ AlltrailsFetchFailed /\ ~NON_INTERACTIVE
    /\ pc = "compose" /\ calls.manual = 1 /\ attempts = 1
    /\ Val(data).coordinates = Some(<< 611796, -1498353 >>)

(***************************************************************************)
(* C4 as the specification states it: in batch mode without                *)
(* non-interactive mode, a URL that fails does not end the run, so the     *)
(* process ends only after the last URL of the file was processed (unless  *)
(* the operator interrupts it or declines to continue).                    *)
(***************************************************************************)
C4_BatchContinues ==
    (/\ mode = "batch" /\ ~NON_INTERACTIVE
     /\ pc = "exited" /\ outcome \notin {"interrupted", "declined"}) =>
        i = nurls

\* the raw distance and elevation texts of the page at hand
RawDistance == FirstCapture(distance_patterns, Val(resp).html)
RawElevation == FirstCapture(elevation_patterns, Val(resp).html)

(***************************************************************************)
(* C5 as the specification states it: a raw distance below 100 is kept as  *)
(* miles, rounded to one decimal; any other is converted from meters.      *)
(***************************************************************************)
C5_DistanceThreshold ==
    (AlltrailsFetched /\ ~IsNone(RawDistance)) =>
        LET v == Float(Val(RawDistance), 1).v
        IN Val(data).distance = Some(IF v < 1000 THEN v ELSE MilesTenths(v))

(***************************************************************************)
(* C5: every raw distance v matched by the first matching distance pattern *)
(* is converted from meters, whatever its size: the numeric field is       *)
(* round(v * 0.000621371, 1) and the display string is that value followed *)
(* by " mi" (80 gives 0.0 and "0.0 mi", 8047 gives 5.0 and "5.0 mi"); no   *)
(* match leaves the field unset.                                           *)
(***************************************************************************)
C5_DistanceAlwaysFromMeters ==
    AlltrailsFetched =>
        LET d == Val(data)
        IN /\ IsNone(RawDistance) => IsNone(d.distance)
           /\ ~IsNone(RawDistance) =>
                 /\ d.distance = Some(MilesTenths(Float(Val(RawDistance), 1).v))
                 /\ BeginsWith(d.description, TenthsStr(Val(d.distance)) \o <<" ","m","i">>)
           /\ RawDistance = Some(<<"8","0">>) =>
                 (d.distance = Some(0) /\ BeginsWith(d.description, <<"0",".","0"," ","m","i">>))
           /\ RawDistance = Some(<<"8","0","4","7">>) =>
                 (d.distance = Some(50) /\ BeginsWith(d.description, <<"5",".","0"," ","m","i">>))
           /\ RawDistance = Some(<<"9","9">>) => d.distance = Some(1)
           /\ RawDistance = Some(<<"1","0","0">>) => d.distance = Some(1)
           /\ RawDistance = Some(<<"1","2","8","7","5",".","9">>) => d.distance = Some(80)

\* a raw distance of 80, below the threshold, converted all the same
C5_EightyMeters ==
    /\ AlltrailsFetched
    /\ RawDistance = Some(<<"8","0">>)
    /\ Val(data).distance = Some(0)

(***************************************************************************)
(* C6 as the specification states it: a raw elevation gain below 10,000 is *)
(* kept as feet; any other is converted from meters and truncated.         *)
(***************************************************************************)
C6_ElevationThreshold ==
    (AlltrailsFetched /\ ~IsNone(RawElevation)) =>
        LET v == Float(Val(RawElevation), 1).v
        IN Val(data).elevation_gain =
               Some(IF v < 100000 THEN v \div 10 ELSE FeetOf(v))

(***************************************************************************)
(* C6: every raw elevation gain v matched by the first matching elevation  *)
(* pattern is converted from meters, whatever its size: the numeric field  *)
(* is v * 3.28084 truncated to an integer, and the display string is that  *)
(* integer followed by " ft" (500 gives 1640 and "1640 ft"); no match      *)
(* leaves the field unset.                                                 *)
(***************************************************************************)
C6_ElevationAlwaysFromMeters ==
    AlltrailsFetched =>
        LET d == Val(data)
        IN /\ IsNone(RawElevation) => IsNone(d.elevation_gain)
           /\ ~IsNone(RawElevation) =>
                 /\ d.elevation_gain = Some(FeetOf(Float(Val(RawElevation), 1).v))
                 /\ Contains(Val(d.description),
                             <<"+">> \o IntStr(Val(d.elevation_gain))
                             \o <<" ","f","t"," ","e","l","e","v","a","t","i","o","n">>)
           /\ RawElevation = Some(<<"5","0","0">>) =>
                 /\ d.elevation_gain = Some(1640)
                 /\ Contains(Val(d.description), <<"+","1","6","4","0"," ","f","t"," ","e","l","e","v","a","t","i","o","n">>)
           /\ RawElevation = Some(<<"4","1","1",".","5">>) => d.elevation_gain = Some(1350)
           /\ RawElevation = Some(<<"9","9","9","9">>) => d.elevation_gain = Some(32805)
           /\ RawElevation = Some(<<"1","0","0","0","0">>) => d.elevation_gain = Some(32808)
           /\ RawElevation = Some(<<"1","2","0","0","0">>) => d.elevation_gain = Some(39370)
           /\ RawElevation = Some(<<"5","0","0","0","0","0">>) => d.elevation_gain = Some(1640420)

\* a raw elevation gain of 500, below the threshold, converted all the same
C6_FiveHundredMeters ==
    /\ AlltrailsFetched
    /\ RawElevation = Some(<<"5","0","0">>)
    /\ Val(data).elevation_gain = Some(1640)

(***************************************************************************)
(* C7: the coordinates of every candidate an extractor returned, and of    *)
(* the record composed from it, are absent or a pair of a latitude and a   *)
(* longitude; never a single axis.                                         *)
(***************************************************************************)
C7_CoordinatesBothOrNone ==
    /\ ~IsNone(data) =>
          LET c == Val(data).coordinates
          IN IsNone(c) \/ (Len(Val(c)) = 2 /\ Val(c)[1] \in Int /\ Val(c)[2] \in Int)
    /\ ~IsNone(new_pin) =>
          LET c == Val(new_pin).coordinates
          IN IsNone(c) \/ (Len(Val(c)) = 2 /\ Val(c)[1] \in Int /\ Val(c)[2] \in Int)

\* a page whose structured data holds a latitude alone: no coordinates
C7_LatitudeAlone ==
    /\ AlltrailsFetched
    /\ Contains(Val(resp).html, LdHalf)
    /\ IsNone(Val(data).coordinates)

(***************************************************************************)
(* C8: infer_category returns the first category, in the order of the list *)
(* it is given, whose name is a key of the keyword table and one of whose  *)
(* keywords occurs in the lower-cased "name description"; it returns none  *)
(* when no category of the list matches, and never a name that is not a    *)
(* key of the table.                                                       *)
(***************************************************************************)
C8_FirstMatchingCategory ==
    calls.infer > 0 =>
        LET d == Val(data)
            cats == Val(categories_cache)
            text == Lower(OrEmpty(d.name) \o <<" ">> \o OrEmpty(d.description))
            Hit(k) ==
                /\ cats[k].name \in KeywordKeys
                /\ \E j \in 1..Len(keywords(cats[k].name)) :
                      Contains(text, keywords(cats[k].name)[j])
        IN /\ IsNone(suggested_category) <=> (\A k \in 1..Len(cats) : ~Hit(k))
           /\ ~IsNone(suggested_category) =>
                 /\ Val(suggested_category) \in KeywordKeys
                 /\ \E k \in 1..Len(cats) :
                       /\ Hit(k)
                       /\ \A j \in 1..(k - 1) : ~Hit(j)
                       /\ cats[k].name = Val(suggested_category)
           /\ (/\ d.name = Some(<<"B","e","s","t"," ","B","u","r","r","i","t","o"," ","C","a","f","e">>)
               /\ ~Truthy(d.description)
               /\ \E k \in 1..Len(cats) : cats[k].name = <<"E","a","t","/","D","r","i","n","k">>) =>
                 suggested_category = Some(<<"E","a","t","/","D","r","i","n","k">>)

\* two categories of the list match, and the earlier one is returned
C8_EarlierOfTwo ==
    /\ calls.infer = 1
    /\ Val(data).description = Some(<<"H","i","s","t","o","r","i","c"," ","T","o","w","e","r"," ","C","a","f","e">>)
    /\ Val(categories_cache)[2].name = <<"L","a","n","d","m","a","r","k">>
    /\ Val(categories_cache)[3].name = <<"E","a","t","/","D","r","i","n","k">>
    /\ suggested_category = Some(<<"L","a","n","d","m","a","r","k">>)

(***************************************************************************)
(* C9: while an alltrails URL is processed, on the fetched path and on the *)
(* manual path, the candidate's category and the category of the record    *)
(* passed to insert_pin are 'Hike', and infer_category is not called.      *)
(***************************************************************************)
C9_TrailsAreHikes ==
    service = "alltrails" =>
        /\ calls.infer = 0
        /\ IsNone(suggested_category)
        /\ ~IsNone(data) => Val(data).category = Some(<<"H","i","k","e">>)
        /\ ~IsNone(new_pin) => Val(new_pin).category = <<"H","i","k","e">>
        /\ pc = "insert" => (~IsNone(data) /\ ~IsNone(new_pin))

\* the record of a manually entered trail, about to be inserted
C9_ManualTrailRecord ==
    /\ service = "alltrails"
    /\ pc = "insert"
    /\ ~IsNone(manual)
    /\ Val(new_pin).category = <<"H","i","k","e">>

(***************************************************************************)
(* C10: detect_maps_service answers for every URL, testing substrings in a *)
(* fixed order: 'google' when the URL contains 'maps.google.com',          *)
(* 'maps.app.goo.gl' or 'goo.gl/maps'; else 'apple' when it contains       *)
(* 'maps.apple.com'; else 'alltrails' when it contains 'alltrails.com';    *)
(* else the unknown value; the extractor called is the one of the service, *)
(* and for an unknown URL process_single_url calls no extractor and        *)
(* inserts nothing.                                                        *)
(***************************************************************************)
C10_ServiceDetection ==
    /\ pc = "process" =>
          LET google == \/ Contains(url, <<"m","a","p","s",".","g","o","o","g","l","e",".","c","o","m">>)
                        \/ Contains(url, <<"m","a","p","s",".","a","p","p",".","g","o","o",".","g","l">>)
                        \/ Contains(url, <<"g","o","o",".","g","l","/","m","a","p","s">>)
              apple == Contains(url, <<"m","a","p","s",".","a","p","p","l","e",".","c","o","m">>)
              alltrails == Contains(url, <<"a","l","l","t","r","a","i","l","s",".","c","o","m">>)
          IN /\ service = detect_maps_service(url)
             /\ google => service = "google"
             /\ (~google /\ apple) => service = "apple"
             /\ (~google /\ ~apple /\ alltrails) => service = "alltrails"
             /\ (~google /\ ~apple /\ ~alltrails) => service = Unknown
             /\ calls = NoCalls /\ IsNone(fetched) /\ IsNone(data)
    /\ calls.extractor = "fetch_google_maps_data" => service = "google"
    /\ calls.extractor = "fetch_apple_maps_data" => service = "apple"
    /\ calls.extractor = "fetch_alltrails_data" => service = "alltrails"
    /\ service = Unknown =>
          /\ calls = NoCalls
          /\ IsNone(fetched) /\ IsNone(data) /\ IsNone(new_pin) /\ IsNone(db_pin)
          /\ pc \in {"start", "process", "raised", "exited"}
    /\ outcome = "unrecognized" =>
          /\ service = Unknown /\ url \in {UrlUnknown, << >>}
          /\ pc = "exited" /\ exit_code = Some(1)

\* a URL of no known service, rejected
C10_UnknownRejected ==
    /\ url = UrlUnknown
    /\ outcome = "unrecognized"
    /\ calls = NoCalls
    /\ pins = 0


\* fetch_alltrails_data read a page: its candidate is at hand, or it raised
AlltrailsRead ==
    /\ calls.extractor = "fetch_alltrails_data"
    /\ ~IsNone(resp) /\ Val(resp).ok

(***************************************************************************)
(* C11: fetch_alltrails_data tries the coordinate patterns on the fetched  *)
(* page in the order compact "lat"/"lng", verbose "latitude"/"longitude",  *)
(* data-lat/data-lng attributes, center: [lat, lng], and the first pattern *)
(* that matches supplies the candidate's coordinates; the centre pair is   *)
(* used only when the three before it fail, the JSON-LD geo object only    *)
(* when all four fail, and a malformed or geo-less JSON-LD payload leaves  *)
(* the coordinates absent; in each case the coordinates are settled        *)
(* without an error, so that a candidate is returned unless the metrics     *)
(* read after them raise.                                                   *)
(***************************************************************************)
C11_FirstPatternSupplies ==
    AlltrailsRead =>
        LET html == Val(resp).html
            compact == ReSearch(CompactPattern, html)
            verbose == ReSearch(VerbosePattern, html)
            attrs == ReSearch(DataAttrPattern, html)
            center == ReSearch(CenterArrayPattern, html)
            jsonld == FirstGroup(JsonLdPattern, html)
            Found(m) == Some(<< Float(Group(html, m, 1), 4).v,
                                Float(Group(html, m, 2), 4).v >>)
            none == ~compact.ok /\ ~verbose.ok /\ ~attrs.ok /\ ~center.ok
            Supplied(coordinates) ==
                IF IsNone(data) THEN AlltrailsMetricsRaise(html)
                ELSE Val(data).coordinates = coordinates
        IN /\ compact.ok => Supplied(Found(compact))
           /\ (~compact.ok /\ verbose.ok) => Supplied(Found(verbose))
           /\ (~compact.ok /\ ~verbose.ok /\ attrs.ok) => Supplied(Found(attrs))
           /\ (~compact.ok /\ ~verbose.ok /\ ~attrs.ok /\ center.ok) =>
                  Supplied(Found(center))
           /\ (none /\ jsonld = Some(LdList)) => Supplied(Some(<< 609000, -1491000 >>))
           /\ (none /\ (IsNone(jsonld) \/ Val(jsonld) \in {LdHalf, LdNoGeo, LdBroken})) =>
                  Supplied(None)

\* the same statement, of the pages for which a candidate was returned
C11_OfReturnedCandidates == ~IsNone(data) => C11_FirstPatternSupplies

\* a page whose compact pattern matches a text float() rejects: the function raised
C11_MatchedAndRaised ==
    /\ AlltrailsRead
    /\ ReSearch(CompactPattern, Val(resp).html).ok
    /\ ~AlltrailsMetricsRaise(Val(resp).html)
    /\ pc = "raised" /\ IsNone(data)

(***************************************************************************)
(* C12: the name of the candidate fetch_alltrails_data returns is the      *)
(* og:title content with its ' - ...' or ' | ...' suffix trimmed; when     *)
(* that is missing or empty, the <title> text trimmed the same way; when   *)
(* neither gives a name other than 'AllTrails', the data-name attribute;   *)
(* when that gives none either, the last path segment of the URL with      *)
(* hyphens as spaces, title-cased.  The name is never empty and never      *)
(* 'AllTrails', and 'Flattop Mountain - Alaska | AllTrails' yields         *)
(* 'Flattop Mountain'.                                                     *)
(***************************************************************************)
C12_NameChain ==
    AlltrailsFetched =>
        LET html == Val(resp).html
            name == Val(data).name
            og == FirstGroup(OgTitlePattern, html)
            title == FirstGroup(TitlePattern, html)
            attr == FirstGroup(DataNamePattern, html)
            a == IF IsNone(og) THEN << >> ELSE TrimSuffix(Val(og))
            b == IF IsNone(title) THEN << >> ELSE TrimSuffix(Val(title))
            Usable(n) == n # << >> /\ n # <<"A","l","l","T","r","a","i","l","s">>
            fromTitles == IF a # << >> THEN a ELSE b
            segment == LastSegment(RStripSlash(url))
        IN /\ ~IsNone(name)
           /\ Val(name) # << >> /\ Val(name) # <<"A","l","l","T","r","a","i","l","s">>
           /\ Usable(fromTitles) => Val(name) = fromTitles
           /\ (~Usable(fromTitles) /\ ~IsNone(attr) /\ Usable(Val(attr))) =>
                  Val(name) = Val(attr)
           /\ (~Usable(fromTitles) /\ (IsNone(attr) \/ ~Usable(Val(attr)))) =>
                  Val(name) = Title(ReplaceChar(segment, "-", <<" ">>))
           /\ og = Some(<<"F","l","a","t","t","o","p"," ","M","o","u","n","t","a","i","n"," ","-"," ","A","l","a","s","k","a"," ","|"," ","A","l","l","T","r","a","i","l","s">>) =>
                  Val(name) = <<"F","l","a","t","t","o","p"," ","M","o","u","n","t","a","i","n">>
           /\ (IsNone(og) /\ IsNone(title) /\ IsNone(attr)) =>
                  Val(name) \in {<<"F","l","a","t","t","o","p"," ","M","o","u","n","t","a","i","n">>, <<"W","i","n","n","e","r"," ","C","r","e","e","k">>}

\* a page titled 'AllTrails' only, named after its data-name attribute
C12_SiteNameReplaced ==
    /\ AlltrailsFetched
    /\ FirstGroup(TitlePattern, Val(resp).html) = Some(<<"A","l","l","T","r","a","i","l","s">>)
    /\ IsNone(FirstGroup(OgTitlePattern, Val(resp).html))
    /\ Val(data).name = Some(<<"W","i","n","n","e","r"," ","C","r","e","e","k">>)

(***************************************************************************)
(* C13: fetch_apple_maps_data fetches the page only when the 'll'          *)
(* parameter of the URL gave no coordinates; when that fetch fails no      *)
(* error leaves the function: it returns a candidate without coordinates   *)
(* whose name and description are those of the query string, the 'q'       *)
(* parameter, or the 'address' parameter when there is no 'q'.             *)
(***************************************************************************)
C13_AppleFetchOnlyWithoutLl ==
    calls.extractor = "fetch_apple_maps_data" =>
        LET query == UrlQuery(url)
            ll == ParseQsFirst(query, <<"l","l">>)
            q == ParseQsFirst(query, <<"q">>)
            address == ParseQsFirst(query, <<"a","d","d","r","e","s","s">>)
            located == ~IsNone(ll) /\ ReMatch(LlPattern, Val(ll)).ok
            fromQuery == IF ~IsNone(q) THEN Some(UnquotePlus(Val(q)))
                         ELSE IF ~IsNone(address) THEN Some(UnquotePlus(Val(address)))
                         ELSE None
        IN /\ located <=> IsNone(fetched)
           /\ ~located => fetched = Some(url)
           /\ located => ~IsNone(data) /\ ~IsNone(Val(data).coordinates)
           /\ url = UrlAppleLl =>
                 /\ IsNone(fetched)
                 /\ Val(data).coordinates = Some(<< 612181, -1499003 >>)
           /\ url = UrlAppleBadLl => fetched = Some(url)
           /\ (~IsNone(resp) /\ ~Val(resp).ok) =>
                 /\ pc = "exited" /\ outcome = "no_coordinates"
                 /\ ~IsNone(data)
                 /\ IsNone(Val(data).coordinates)
                 /\ Val(data).name = fromQuery
                 /\ Val(data).description = fromQuery
                 /\ url = UrlAppleAddress => Val(data).name = Some(<<"O","l","d"," ","T","o","w","n">>)
                 /\ url = UrlAppleBadLl =>
                        Val(data).description = Some(<<"D","e","n","a","l","i"," ","V","i","e","w","p","o","i","n","t">>)
                 /\ url = UrlApplePlain => IsNone(Val(data).name)

\* an address-only URL whose page could not be fetched
C13_FailedAppleFetch ==
    /\ calls.extractor = "fetch_apple_maps_data"
    /\ url = UrlAppleAddress
    /\ fetched = Some(url)
    /\ resp = Some(FetchFailed)
    /\ Val(data).name = Some(<<"O","l","d"," ","T","o","w","n">>)
    /\ IsNone(Val(data).coordinates)

(***************************************************************************)
(* C14: the record process_single_url composes for insert_pin from a       *)
(* candidate with coordinates fills in what the candidate lacks: without a *)
(* description of the candidate and without a custom description of the    *)
(* operator, the record's description is the candidate's name; without a   *)
(* name of the candidate but with a description, the record's name is that *)
(* description.                                                            *)
(***************************************************************************)
C14_DefaultsSubstituted ==
    (pc = "insert" /\ ~IsNone(data) /\ ~IsNone(new_pin)) =>
        LET d == Val(data)
            p == Val(new_pin)
            custom == {Some(c) : c \in CustomDescriptions \ {<< >>}}
        IN /\ ~IsNone(d.coordinates)
           /\ p.coordinates = d.coordinates
           /\ ~Truthy(d.description) =>
                 \/ p.description = d.name
                 \/ ~NON_INTERACTIVE /\ p.description \in custom
           /\ (~Truthy(d.name) /\ Truthy(d.description)) => p.name = d.description

\* the half of it that holds: the description falls back to the name
C14_DescriptionFromName ==
    (pc = "insert" /\ ~IsNone(data) /\ ~IsNone(new_pin)) =>
        LET d == Val(data)
            p == Val(new_pin)
            custom == {Some(c) : c \in CustomDescriptions \ {<< >>}}
        IN /\ p.name = d.name
           /\ \/ p.description = (IF Truthy(d.description) THEN d.description ELSE d.name)
              \/ ~NON_INTERACTIVE /\ p.description \in custom

\* a record without a name, composed from a candidate that had a description
C14_NamelessRecord ==
    /\ pc = "insert"
    /\ IsNone(Val(data).name) /\ Truthy(Val(data).description)
    /\ IsNone(Val(new_pin).name)
    /\ Val(new_pin).description = Val(data).description

(***************************************************************************)
(* C15: when non-interactive mode is set, input() is never called: a       *)
(* failed trail fetch exits and fetch_alltrails_manual is not entered, a   *)
(* maps URL without an inferred category exits, the record is composed     *)
(* without a custom description or a 'Learn more' link of the operator,    *)
(* and an exception in a batch exits without the question whether to go on. *)
(***************************************************************************)
C15_NoPromptNonInteractive ==
    NON_INTERACTIVE =>
        /\ ~prompted
        /\ pc # "manual" /\ calls.manual = 0 /\ IsNone(manual) /\ attempts = 0
        /\ AlltrailsFetchFailed =>
              (pc = "exited" /\ outcome = "fetch_failed_noninteractive")
        /\ (pc = "insert" /\ service \in {"google", "apple"}) =>
              /\ ~IsNone(suggested_category)
              /\ Val(new_pin).category = Val(suggested_category)
              /\ IsNone(Val(new_pin).link)
        /\ pc = "insert" =>
              Val(new_pin).description = OrElse(Val(data).description, Val(data).name)
        /\ outcome \notin {"declined"}
        /\ (calls.infer = 1 /\ IsNone(suggested_category)) =>
              (pc = "exited" /\ outcome = "no_category_noninteractive")

\* a non-interactive batch that ended on an exception, nobody asked
C15_BatchErrorExits ==
    /\ NON_INTERACTIVE /\ mode = "batch"
    /\ outcome = "exception" /\ exit_code = Some(1)
    /\ ~prompted
====
